---------------------------- MODULE Spec2Model ----------------------------
(***************************************************************************)
(* Verification model of etherealpost: the statistics primitives and the  *)
(* market price estimators (utils/stats.rs), the item level curve         *)
(* (parse/item_level.rs), the item bonus table (data_tables/item_bonus.rs)*)
(* and the auction snapshot summarizer (parse/summary.rs).                 *)
(*                                                                         *)
(* Conventions.                                                            *)
(*  - Option<T>: None, Some(v).  A panic (failed assert!, out-of-range     *)
(*    index, unwrap of None) is the value Panic.                           *)
(*  - A Rust tuple (a, b) is the TLA+ tuple <<a, b>>; Rust indices are     *)
(*    0-based and are kept 0-based here, s[i] being At(s, i).              *)
(*  - f64 arithmetic is modelled by exact rational arithmetic on integers: *)
(*    a percentile is held in hundredths of a percent (15.87 is 1587), the *)
(*    factors 1.2 and 1.5 in tenths (12 and 15), and every comparison is   *)
(*    cross-multiplied.                                                    *)
(***************************************************************************)
EXTENDS Integers, Sequences, FiniteSets, TLC

(***************************************************************************)
(* Bounds of the model                                                     *)
(***************************************************************************)
\* longest (price, quantity) series handed to the estimators
MaxSeriesLen == 3
\* largest collection length handed to percentile_index
MaxLen == 12

\* most control points given to from_points
MaxPoints == 3
\* largest player level of a control point; calc_ilvl is asked one level more
MaxLevel == 4

\* most rows of the ItemBonus CSV
MaxRows == 2
\* most bonus IDs on an item
MaxBonusIds == 2

\* most auctions of a snapshot
MaxAuctions == 3
\* most modifiers on an item
MaxModifiers == 2

\* item levels of the control points
ItemLevelValues == {0, 2, 5}
\* prices and quantities the series are drawn from
PriceValues == {1, 5, 6, 10}
QtyValues == {0, 1, 2, 5}
\* percentiles, in hundredths of a percent, handed to percentile_index
PercentileValues == {-100, 0, 100, 400, 1500, 1587, 3000, 5000, 10000, 20000}

(***************************************************************************)
(* Program constants (utils/stats.rs)                                      *)
(***************************************************************************)
\* const MINIMUM_PRICES_PERCENTILE: f64 = 15.0, in hundredths of a percent
MINIMUM_PRICES_PERCENTILE == 1500
\* const FIRST_STANDARD_DEV_PERCENTILE: f64 = 15.87, in hundredths of a percent
FIRST_STANDARD_DEV_PERCENTILE == 1587
\* const MAX_PRICE_DIFF_FACTOR: f64 = 1.2, in tenths
MAX_PRICE_DIFF_FACTOR == 12
\* the literal 1.5 both estimators pass as std_devs, in tenths
STD_DEVS == 15

(***************************************************************************)
(* Option values and panics                                                *)
(***************************************************************************)
None == [tag |-> "None"]
Some(v) == [tag |-> "Some", val |-> v]
Panic == [tag |-> "Panic"]
NotRun == [tag |-> "NotRun"]
IsSome(o) == o.tag = "Some"

At(s, i) == s[i + 1]
\* s[lo..=hi]
Slice(s, lo, hi) == SubSeq(s, lo + 1, hi + 1)

VARIABLES
    \* utils/stats.rs: the caller's (price, quantity) slice, the flat slice of
    \* the same units, what the two normalized estimators returned, and one
    \* call of market_price
    price_qty, flat_prices, mp_with_qty, mp_flat, mp_call,
    \* utils/stats.rs: one call of std_dev_amount_qty on the (price, quantity)
    \* slice and one call of std_dev on the flat slice
    sd_amount_qty, sd_flat,
    \* utils/stats.rs: one call of percentile_index
    pct_call,
    \* parse/item_level.rs: the (x, y) pairs given to from_points, the curve
    \* built from them, and one call of calc_ilvl on it
    points_in, curve, ilvl_call,
    \* data_tables/item_bonus.rs: the rows of the ItemBonus CSV, the table
    \* built from them, and one call of a resolve_* method on it
    bonus_rows, db2_bonuses, bonus_call,
    \* parse/summary.rs: one call of AuctionsSummary::resolve_item_level
    resolve_call,
    \* parse/summary.rs, AuctionsSummary::from_auction_file: the snapshot, the
    \* number of its auctions the loop has gone through, the locals the loop
    \* fills, and the summary returned
    auction_file, pos,
    item_auctions, item_level_auctions, pet_auctions,
    all_prices, ilvl_prices, pet_prices,
    all_qty, ilvl_qty, pet_qty,
    all_num_auc, ilvl_num_auc, pet_num_auc,
    summary

sdVars == <<sd_amount_qty, sd_flat>>
statsVars == <<price_qty, flat_prices, mp_with_qty, mp_flat, mp_call, sdVars>>
pctVars == <<pct_call>>
curveVars == <<points_in, curve, ilvl_call>>
bonusVars == <<bonus_rows, db2_bonuses, bonus_call>>
resolveVars == <<resolve_call>>
allVars == <<all_prices, all_qty, all_num_auc, item_auctions>>
petVars == <<pet_prices, pet_qty, pet_num_auc, pet_auctions>>
ilvlVars == <<ilvl_prices, ilvl_qty, ilvl_num_auc, item_level_auctions>>
summaryVars == <<auction_file, pos, allVars, petVars, ilvlVars, summary>>
vars == <<statsVars, pctVars, curveVars, bonusVars, resolveVars, summaryVars>>

(***************************************************************************)
(* utils/stats.rs: percentile_index                                        *)
(***************************************************************************)
\* percentile_index(percentile, len); percentile in hundredths of a percent.
\* floor(percentile) is negative exactly when percentile is.
percentile_index(percentile, len) ==
    IF percentile < 0 \/ ~(len > 0)
    THEN Panic
    ELSE LET idx == (percentile * len) \div 10000
         IN  IF idx = 0 THEN Some(0) ELSE Some(idx - 1)

(***************************************************************************)
(* utils/stats.rs: sums, sorting, rounding                                 *)
(***************************************************************************)
RECURSIVE SumSeq(_)
\* numbers.iter().sum()
SumSeq(s) == IF s = <<>> THEN 0 ELSE Head(s) + SumSeq(Tail(s))

RECURSIVE SumSquares(_)
SumSquares(s) == IF s = <<>> THEN 0 ELSE Head(s) * Head(s) + SumSquares(Tail(s))

RECURSIVE SumAmountQty(_)
\* amount_sum += amount * qty
SumAmountQty(pq) ==
    IF pq = <<>> THEN 0 ELSE Head(pq)[1] * Head(pq)[2] + SumAmountQty(Tail(pq))

RECURSIVE SumQty(_)
\* qty_sum += qty
SumQty(pq) == IF pq = <<>> THEN 0 ELSE Head(pq)[2] + SumQty(Tail(pq))

RECURSIVE SumSquaresQty(_)
SumSquaresQty(pq) ==
    IF pq = <<>> THEN 0
    ELSE Head(pq)[1] * Head(pq)[1] * Head(pq)[2] + SumSquaresQty(Tail(pq))

\* mutant of RoundDiv: the quotient is rounded up to the integer above it
RoundDivAbove(num, den) == IF den = 0 THEN 0 ELSE (num \div den) + 1

\* (num as f64 / den as f64).round() as u64, num >= 0: round half away from
\* zero; 0/0 is NaN, and NaN as u64 is 0
RoundDiv(num, den) == IF den = 0 THEN 0 ELSE (2 * num + den) \div (2 * den)

RECURSIVE Insert(_, _)
Insert(x, s) ==
    IF s = <<>> THEN <<x>>
    ELSE IF x <= Head(s) THEN <<x>> \o s
    ELSE <<Head(s)>> \o Insert(x, Tail(s))

RECURSIVE SortFlat(_)
\* v.sort_unstable() on u64: equal elements are indistinguishable
SortFlat(s) == IF s = <<>> THEN <<>> ELSE Insert(Head(s), SortFlat(Tail(s)))

\* price_qty.sort_unstable_by(|a, b| a.0.partial_cmp(&b.0)): every order of the
\* pairs that is ascending in price; pairs of equal price land in any order
SortedByPrice(pq) ==
    { t \in { [i \in 1..Len(pq) |-> pq[f[i]]] : f \in Permutations(1..Len(pq)) } :
        \A i \in 1..(Len(pq) - 1) : t[i][1] <= t[i + 1][1] }

RECURSIVE Repeat(_, _)
Repeat(x, n) == IF n <= 0 THEN <<>> ELSE <<x>> \o Repeat(x, n - 1)

RECURSIVE Expand(_)
\* the flat list in which each price is repeated quantity times
Expand(pq) ==
    IF pq = <<>> THEN <<>> ELSE Repeat(Head(pq)[1], Head(pq)[2]) \o Expand(Tail(pq))

(***************************************************************************)
(* utils/stats.rs: the standard deviation trim                              *)
(*                                                                         *)
(* With n values of sum S and sum of squares SS, mean = S/n and the        *)
(* population variance is (n*SS - S*S)/(n*n).  For a price f and           *)
(* target = std_devs * sqrt(variance):                                     *)
(*   f < mean - target  iff  S - n*f > 0 and (S - n*f)^2 > std_devs^2 * (n*SS - S*S) *)
(*   f > mean + target  iff  n*f - S > 0 and (n*f - S)^2 > std_devs^2 * (n*SS - S*S) *)
(* std_devs is in tenths, so both sides are scaled by 100.                 *)
(***************************************************************************)
\* mutant of BelowRange: f <= range.0
BelowRangeInclusive(f, S, n, SS, std_devs) ==
    /\ S - n * f >= 0
    /\ 100 * (S - n * f) * (S - n * f) >= std_devs * std_devs * (n * SS - S * S)

BelowRange(f, S, n, SS, std_devs) ==
    /\ S - n * f > 0
    /\ 100 * (S - n * f) * (S - n * f) > std_devs * std_devs * (n * SS - S * S)

AboveRange(f, S, n, SS, std_devs) ==
    /\ n * f - S > 0
    /\ 100 * (n * f - S) * (n * f - S) > std_devs * std_devs * (n * SS - S * S)

RECURSIVE NormalizeLoopUpperOnly(_, _, _, _, _, _, _, _)
\* mutant of NormalizeLoop: i0 is not advanced past the prices below the range
NormalizeLoopUpperOnly(ps, i, i0, i1, S, n, SS, std_devs) ==
    IF i >= Len(ps) THEN [i0 |-> i0, i1 |-> i1]
    ELSE IF BelowRange(At(ps, i), S, n, SS, std_devs)
         THEN NormalizeLoopUpperOnly(ps, i + 1, i0, i1, S, n, SS, std_devs)
    ELSE IF AboveRange(At(ps, i), S, n, SS, std_devs)
         THEN [i0 |-> i0, i1 |-> i - 1]
    ELSE NormalizeLoopUpperOnly(ps, i + 1, i0, i1, S, n, SS, std_devs)

RECURSIVE NormalizeLoop(_, _, _, _, _, _, _, _)
\* for (i, p) in prices.iter().enumerate() { ... }, giving (i0, i1); i - 1 at
\* i = 0 underflows usize, and the slice that follows panics
NormalizeLoop(ps, i, i0, i1, S, n, SS, std_devs) ==
    IF i >= Len(ps) THEN [i0 |-> i0, i1 |-> i1]
    ELSE IF BelowRange(At(ps, i), S, n, SS, std_devs)
         THEN NormalizeLoop(ps, i + 1, i + 1, i1, S, n, SS, std_devs)
    ELSE IF AboveRange(At(ps, i), S, n, SS, std_devs)
         THEN [i0 |-> i0, i1 |-> i - 1]
    ELSE NormalizeLoop(ps, i + 1, i0, i1, S, n, SS, std_devs)

\* &prices[i0..=i1]: panics unless i0 <= i1 + 1 and i1 is an index
SliceOrPanic(s, b) ==
    IF b.i1 < 0 \/ b.i1 >= Len(s) \/ b.i0 > b.i1 + 1 THEN Panic
    ELSE Some(Slice(s, b.i0, b.i1))

\* normalize_from_std_dev(prices, std_devs): Some(slice) or Panic
normalize_from_std_dev(prices, std_devs) ==
    IF Len(prices) < 2 THEN Panic   \* std_dev(prices, true).unwrap()
    ELSE SliceOrPanic(prices,
        NormalizeLoop(prices, 0, 0, Len(prices) - 1,
                      SumSeq(prices), Len(prices), SumSquares(prices), std_devs))

\* the prices of a (price, quantity) series, in order
Prices(pq) == [i \in 1..Len(pq) |-> pq[i][1]]

\* normalize_from_std_dev_price_qty(price_qty, std_devs): Some(slice) or Panic
normalize_from_std_dev_price_qty(pq, std_devs) ==
    IF SumQty(pq) < 2 THEN Panic    \* std_dev_amount_qty(price_qty, true).unwrap()
    ELSE SliceOrPanic(pq,
        NormalizeLoop(Prices(pq), 0, 0, Len(pq) - 1,
                      SumAmountQty(pq), SumQty(pq), SumSquaresQty(pq), std_devs))
(***************************************************************************)
(* utils/stats.rs: std_dev and std_dev_amount_qty                          *)
(*                                                                         *)
(* A standard deviation is held as its square, the variance, an exact      *)
(* fraction <<numerator, denominator>>; the variance 0 is <<0, 1>>.        *)
(***************************************************************************)
\* std_dev(numbers, is_population): sum((n - mean)^2) / len, or / (len - 1)
std_dev(numbers, is_population) ==
    LET len == Len(numbers)
        calc_len == IF is_population THEN len ELSE len - 1
        num == len * SumSquares(numbers) - SumSeq(numbers) * SumSeq(numbers)
    IN  IF len < 2 THEN None
        ELSE Some(IF num = 0 THEN <<0, 1>> ELSE <<num, len * calc_len>>)

\* mutant of std_dev_amount_qty: the quantity sum divides in both variants
std_dev_amount_qty_by_sum(amount_qty, is_population) ==
    LET amount_sum == SumAmountQty(amount_qty)
        qty_sum == SumQty(amount_qty)
        num == qty_sum * SumSquaresQty(amount_qty) - amount_sum * amount_sum
    IN  IF qty_sum < 2 THEN None
        ELSE Some(IF num = 0 THEN <<0, 1>> ELSE <<num, qty_sum * qty_sum>>)

\* std_dev_amount_qty(amount_qty, is_population): the square of the result as
\* the fraction <<numerator, denominator>>, the variance
\* sum(qty * (amount - mean)^2) / calc_len
std_dev_amount_qty(amount_qty, is_population) ==
    LET amount_sum == SumAmountQty(amount_qty)
        qty_sum == SumQty(amount_qty)
        calc_len == IF is_population THEN qty_sum ELSE qty_sum - 1
        num == qty_sum * SumSquaresQty(amount_qty) - amount_sum * amount_sum
    IN  IF qty_sum < 2 THEN None
        ELSE Some(IF num = 0 THEN <<0, 1>> ELSE <<num, qty_sum * calc_len>>)

(***************************************************************************)
(* utils/stats.rs: market_price                                            *)
(***************************************************************************)
\* mutant of market_price: None below two prices, as in the crate's first
\* version (src/src/utils/stats.rs)
market_price_none_below_two(prices) ==
    IF Len(prices) < 2 THEN None
    ELSE LET p_index == percentile_index(FIRST_STANDARD_DEV_PERCENTILE, Len(prices)).val
             v == SortFlat(prices)
             calc_prices == Slice(v, 0, p_index)
         IN  Some(RoundDiv(SumSeq(calc_prices), Len(calc_prices)))

\* mutant of market_price: the copy is not sorted
market_price_unsorted(prices) ==
    IF prices = <<>> THEN None
    ELSE IF Len(prices) = 1 THEN Some(At(prices, 0))
    ELSE LET p_index == percentile_index(FIRST_STANDARD_DEV_PERCENTILE, Len(prices)).val
             calc_prices == Slice(prices, 0, p_index)
         IN  Some(RoundDiv(SumSeq(calc_prices), Len(calc_prices)))

\* market_price(prices)
market_price(prices) ==
    IF prices = <<>> THEN None
    ELSE IF Len(prices) = 1 THEN Some(At(prices, 0))
    ELSE LET p_index == percentile_index(FIRST_STANDARD_DEV_PERCENTILE, Len(prices)).val
             v == SortFlat(prices)
             calc_prices == Slice(v, 0, p_index)
         IN  Some(RoundDiv(SumSeq(calc_prices), Len(calc_prices)))

(***************************************************************************)
(* utils/stats.rs: normalized_market_price                                 *)
(***************************************************************************)
RECURSIVE ExtendTargetInclusive(_, _, _, _, _)
\* mutant of ExtendTarget: a price of exactly 1.2 times the last one is included
ExtendTargetInclusive(prices, i, p1_index, target_index, last_num) ==
    IF i > p1_index THEN target_index
    ELSE IF 10 * At(prices, i) <= MAX_PRICE_DIFF_FACTOR * last_num
         THEN ExtendTargetInclusive(prices, i + 1, p1_index, target_index + 1, At(prices, i))
    ELSE target_index

RECURSIVE ExtendTarget(_, _, _, _, _)
\* for p in &prices[p0_index + 1..=p1_index] { ... }: the final target_index
ExtendTarget(prices, i, p1_index, target_index, last_num) ==
    IF i > p1_index THEN target_index
    ELSE IF 10 * At(prices, i) < MAX_PRICE_DIFF_FACTOR * last_num
         THEN ExtendTarget(prices, i + 1, p1_index, target_index + 1, At(prices, i))
    ELSE target_index

\* the target_index of normalized_market_price on sorted prices, Len >= 2
TargetIndex(prices) ==
    LET p0_index == percentile_index(MINIMUM_PRICES_PERCENTILE, Len(prices)).val
        p1_index == percentile_index(MINIMUM_PRICES_PERCENTILE * 2, Len(prices)).val
    IN  IF p1_index > p0_index
        THEN ExtendTarget(prices, p0_index + 1, p1_index, p0_index, At(prices, p0_index))
        ELSE p0_index

normalized_market_price(unsorted) ==
    IF unsorted = <<>> THEN None
    ELSE IF Len(unsorted) = 1 THEN Some(At(unsorted, 0))
    ELSE LET prices == SortFlat(unsorted)
             calc_prices == Slice(prices, 0, TargetIndex(prices))
         IN  IF Len(calc_prices) < 2
             THEN Some(RoundDiv(SumSeq(calc_prices), Len(calc_prices)))
             ELSE LET filtered_prices == normalize_from_std_dev(calc_prices, STD_DEVS)
                  IN  IF filtered_prices = Panic THEN Panic
                      ELSE Some(RoundDiv(SumSeq(filtered_prices.val),
                                         Len(filtered_prices.val)))
(***************************************************************************)
(* utils/stats.rs: normalized_market_price_with_qty                        *)
(***************************************************************************)
RECURSIVE WindowLoop(_, _, _, _, _, _, _)
\* while added_qty < p1_target { ... }: the final index_plus_qty, or Panic.
\* ipq is index_plus_qty as <<index, partial>>, last_price an Option.
WindowLoop(pq, p0_target, p1_target, added_qty, iter_index, ipq, last_price) ==
    IF ~(added_qty < p1_target) THEN Some(ipq)
    ELSE IF iter_index >= Len(pq) THEN Panic    \* price_qty[iter_index]
    ELSE
    LET price == At(pq, iter_index)[1]
        qty == At(pq, iter_index)[2]
        qty_if_added == added_qty + qty
        \* added_qty += qty; index_plus_qty = (iter_index, 0); last_price = Some(price)
        AddWhole == WindowLoop(pq, p0_target, p1_target, added_qty + qty,
                               iter_index + 1, <<iter_index, 0>>, Some(price))
        \* partial up to p1, then break
        PartialP1 == Some(<<iter_index, -(qty - (p1_target - added_qty))>>)
    IN  IF qty_if_added <= p0_target THEN AddWhole
        ELSE IF added_qty > p0_target
        THEN IF last_price = None THEN Panic    \* last_price.unwrap()
             ELSE IF 10 * price < MAX_PRICE_DIFF_FACTOR * last_price.val
                  THEN IF qty_if_added <= p1_target THEN AddWhole ELSE PartialP1
                  ELSE Some(ipq)                \* break
        ELSE IF p1_target > p0_target
        THEN IF qty_if_added <= p1_target THEN AddWhole ELSE PartialP1
        ELSE LET p0_missing == p0_target - added_qty
             IN  WindowLoop(pq, p0_target, p1_target, added_qty + p0_missing,
                            iter_index + 1, <<iter_index, -(qty - p0_missing)>>,
                            Some(price))

\* mutant of NewPrices: the partial quantity is not applied
NewPricesWhole(pq, ipq) == Slice(pq, 0, ipq[1])

\* price_qty[0..=index].to_vec(), the last quantity reduced when partial < 0
NewPrices(pq, ipq) ==
    LET new_prices == Slice(pq, 0, ipq[1])
    IN  IF ipq[2] < 0
        THEN [new_prices EXCEPT ![Len(new_prices)] =
                  <<new_prices[Len(new_prices)][1], At(pq, ipq[1])[2] + ipq[2]>>]
        ELSE new_prices

\* the body of normalized_market_price_with_qty after the sort: sorted is the
\* order the sort left the slice in
NormalizedAfterSort(sorted) ==
    LET qty_sum == SumQty(sorted)
        p0_index == percentile_index(MINIMUM_PRICES_PERCENTILE, qty_sum)
        p1_index == percentile_index(MINIMUM_PRICES_PERCENTILE * 2, qty_sum)
    IN  IF p0_index = Panic \/ p1_index = Panic THEN Panic
        ELSE
        LET w == WindowLoop(sorted, p0_index.val + 1, p1_index.val + 1, 0, 0,
                            <<0, 0>>, None)
        IN  IF w = Panic THEN Panic
            ELSE
            LET new_prices == NewPrices(sorted, w.val)
            IN  IF SumQty(new_prices) < 2 THEN Some(SumAmountQty(new_prices))
                ELSE
                LET filtered_prices ==
                        normalize_from_std_dev_price_qty(new_prices, STD_DEVS)
                IN  IF filtered_prices = Panic THEN Panic
                    ELSE Some(RoundDiv(SumAmountQty(filtered_prices.val),
                                       SumQty(filtered_prices.val)))

\* normalized_market_price_with_qty(price_qty) when the sort leaves the slice
\* as sorted (a member of SortedByPrice(price_qty))
\* mutant of normalized_market_price_with_qty: no return for the empty series
normalized_market_price_with_qty_unguarded(pq, sorted) ==
    IF SumQty(pq) = 1 THEN Some(At(pq, 0)[1])
    ELSE NormalizedAfterSort(sorted)

normalized_market_price_with_qty(pq, sorted) ==
    IF pq = <<>> THEN None
    ELSE IF SumQty(pq) = 1 THEN Some(At(pq, 0)[1])
    ELSE NormalizedAfterSort(sorted)
(***************************************************************************)
(* The estimators as a state machine: a caller holds a (price, quantity)   *)
(* slice and the flat slice of the same units, and calls each estimator    *)
(* once.  Both estimators sort the caller's slice in place.                *)
(***************************************************************************)
\* every sequence over S of length 0..n
SeqsUpTo(S, n) == UNION { [1..k -> S] : k \in 0..n }

\* the auctions of the doc example of market_price, the 31 units of its test:
\* 5 @ 6.00g, 10 @ 5.00g, 15 @ 5.45g, 1 @ 4.00g, with 0.05g as the unit
DocSeries == <<<<120, 5>>, <<100, 10>>, <<109, 15>>, <<80, 1>>>>

SeriesInputs == SeqsUpTo(PriceValues \X QtyValues, MaxSeriesLen) \cup {DocSeries}

StatsIdle ==
    /\ price_qty = <<>>
    /\ flat_prices = <<>>
    /\ mp_with_qty = NotRun
    /\ mp_flat = NotRun
    /\ mp_call = NotRun
    /\ sd_amount_qty = NotRun
    /\ sd_flat = NotRun

PctIdle == pct_call = NotRun

CurveIdle ==
    /\ points_in = <<>>
    /\ curve = NotRun
    /\ ilvl_call = NotRun

BonusIdle ==
    /\ bonus_rows = <<>>
    /\ db2_bonuses = NotRun
    /\ bonus_call = NotRun

ResolveIdle == resolve_call = NotRun

SummaryIdle ==
    /\ auction_file = <<>>
    /\ pos = 0
    /\ all_prices = <<>> /\ all_qty = <<>> /\ all_num_auc = <<>>
    /\ item_auctions = <<>>
    /\ pet_prices = <<>> /\ pet_qty = <<>> /\ pet_num_auc = <<>>
    /\ pet_auctions = <<>>
    /\ ilvl_prices = <<>> /\ ilvl_qty = <<>> /\ ilvl_num_auc = <<>>
    /\ item_level_auctions = <<>>
    /\ summary = NotRun

InitStats ==
    /\ price_qty \in SeriesInputs
    /\ flat_prices = Expand(price_qty)
    /\ mp_with_qty = NotRun
    /\ mp_flat = NotRun
    /\ mp_call = NotRun
    /\ sd_amount_qty = NotRun
    /\ sd_flat = NotRun
    /\ PctIdle
    /\ CurveIdle
    /\ BonusIdle
    /\ ResolveIdle
    /\ SummaryIdle

\* normalized_market_price_with_qty(&mut price_qty)
Call_normalized_market_price_with_qty ==
    /\ mp_with_qty = NotRun
    /\ \E sorted \in SortedByPrice(price_qty) :
          /\ mp_with_qty' = normalized_market_price_with_qty(price_qty, sorted)
          \* the two early returns come before the sort
          /\ price_qty' = IF price_qty = <<>> \/ SumQty(price_qty) = 1
                          THEN price_qty ELSE sorted
    /\ UNCHANGED <<flat_prices, mp_flat, mp_call, sdVars, pctVars, curveVars, bonusVars, resolveVars, summaryVars>>

\* normalized_market_price(&mut flat_prices)
Call_normalized_market_price ==
    /\ mp_flat = NotRun
    /\ mp_flat' = normalized_market_price(flat_prices)
    \* the two early returns come before the sort
    /\ flat_prices' = IF Len(flat_prices) < 2 THEN flat_prices
                      ELSE SortFlat(flat_prices)
    /\ UNCHANGED <<price_qty, mp_with_qty, mp_call, sdVars, pctVars, curveVars, bonusVars, resolveVars, summaryVars>>

\* market_price(&flat_prices): the slice is borrowed, the sort is of a copy
Call_market_price ==
    /\ mp_call = NotRun
    /\ mp_call' = [prices |-> flat_prices, result |-> market_price(flat_prices)]
    /\ UNCHANGED <<price_qty, flat_prices, mp_with_qty, mp_flat, sdVars, pctVars, curveVars,
                   bonusVars, resolveVars, summaryVars>>

NextStats ==
    \/ Call_normalized_market_price_with_qty
    \/ Call_normalized_market_price
    \/ Call_market_price

SpecStats == InitStats /\ [][NextStats]_vars

(***************************************************************************)
(* Each normalized estimator alone: a caller holds a slice and calls the   *)
(* estimator on it once.                                                   *)
(***************************************************************************)
NextWithQty == Call_normalized_market_price_with_qty

SpecWithQty == InitStats /\ [][NextWithQty]_vars

NextFlat == Call_normalized_market_price

SpecFlat == InitStats /\ [][NextFlat]_vars

\* the two normalized estimators, each called once
NextNormalized ==
    \/ Call_normalized_market_price_with_qty
    \/ Call_normalized_market_price

SpecNormalized == InitStats /\ [][NextNormalized]_vars

(***************************************************************************)
(* The two standard deviations as a state machine: a caller holds a        *)
(* (price, quantity) slice and the flat slice of the same units, and calls *)
(* each function once, for the population or the sample.                   *)
(***************************************************************************)
InitStdDev == InitStats

\* std_dev_amount_qty(&price_qty, is_population)
Call_std_dev_amount_qty ==
    /\ sd_amount_qty = NotRun
    /\ \E is_population \in BOOLEAN :
          sd_amount_qty' = [is_population |-> is_population,
                            result |-> std_dev_amount_qty(price_qty, is_population)]
    /\ UNCHANGED <<price_qty, flat_prices, mp_with_qty, mp_flat, mp_call, sd_flat,
                   pctVars, curveVars, bonusVars, resolveVars, summaryVars>>

\* std_dev(&flat_prices, is_population)
Call_std_dev ==
    /\ sd_flat = NotRun
    /\ \E is_population \in BOOLEAN :
          sd_flat' = [is_population |-> is_population,
                      result |-> std_dev(flat_prices, is_population)]
    /\ UNCHANGED <<price_qty, flat_prices, mp_with_qty, mp_flat, mp_call,
                   sd_amount_qty, pctVars, curveVars, bonusVars, resolveVars,
                   summaryVars>>

NextStdDev ==
    \/ Call_std_dev_amount_qty
    \/ Call_std_dev

SpecStdDev == InitStdDev /\ [][NextStdDev]_vars

(***************************************************************************)
(* percentile_index as a state machine: one call on drawn arguments        *)
(***************************************************************************)
InitPct ==
    /\ pct_call = NotRun
    /\ StatsIdle
    /\ CurveIdle
    /\ BonusIdle
    /\ ResolveIdle
    /\ SummaryIdle

Call_percentile_index ==
    /\ pct_call = NotRun
    /\ \E percentile \in PercentileValues, len \in 0..MaxLen :
          pct_call' = [percentile |-> percentile, len |-> len,
                       result |-> percentile_index(percentile, len)]
    /\ UNCHANGED <<statsVars, curveVars, bonusVars, resolveVars, summaryVars>>

NextPct == Call_percentile_index

SpecPct == InitPct /\ [][NextPct]_vars

(***************************************************************************)
(* parse/item_level.rs: ItemLevelCurve                                     *)
(*                                                                         *)
(* Player levels and item levels are f64 holding non-negative integers;    *)
(* looted_level is a u32.  |looted_level - x| < 0.01 is then equality.     *)
(***************************************************************************)
CurvePoint(x, y) == [player_level |-> x, item_level |-> y]

RECURSIVE InsertPoint(_, _)
\* the stable insertion of point p: after every point that is not greater
InsertPoint(p, s) ==
    IF s = <<>> THEN <<p>>
    ELSE IF p.player_level < Head(s).player_level THEN <<p>> \o s
    ELSE <<Head(s)>> \o InsertPoint(p, Tail(s))

RECURSIVE SortPoints(_)
\* curve.points.sort_by(|a, b| a.player_level.partial_cmp(&b.player_level)):
\* a stable sort, points of equal player_level keep their order
SortPoints(s) ==
    IF s = <<>> THEN <<>>
    ELSE InsertPoint(s[Len(s)], SortPoints(SubSeq(s, 1, Len(s) - 1)))

RECURSIVE InsertPointBeforeEqual(_, _)
InsertPointBeforeEqual(p, s) ==
    IF s = <<>> THEN <<p>>
    ELSE IF p.player_level <= Head(s).player_level THEN <<p>> \o s
    ELSE <<Head(s)>> \o InsertPointBeforeEqual(p, Tail(s))

RECURSIVE SortPointsUnstable(_)
SortPointsUnstable(s) ==
    IF s = <<>> THEN <<>>
    ELSE InsertPointBeforeEqual(s[Len(s)], SortPointsUnstable(SubSeq(s, 1, Len(s) - 1)))

\* mutant of from_points: sort_unstable_by in place of sort_by, points of equal
\* player_level coming out in reverse
from_points_unstable(points) ==
    SortPointsUnstable([i \in 1..Len(points) |-> CurvePoint(points[i][1], points[i][2])])

\* ItemLevelCurve::from_points(points): the curve's points
from_points(points) ==
    SortPoints([i \in 1..Len(points) |-> CurvePoint(points[i][1], points[i][2])])

\* mutant of TruncU32: the quotient rounded to the nearest integer
RoundU32(num, den) == IF num <= 0 THEN 0 ELSE (2 * num + den) \div (2 * den)

\* (num / den) as u32 for den > 0: truncated toward zero, a negative value
\* saturates at 0
TruncU32(num, den) == IF num <= 0 THEN 0 ELSE num \div den

\* (prev.item_level + (looted_level - prev.player_level)
\*     * ((point.item_level - prev.item_level)
\*        / (point.player_level - prev.player_level))) as u32
\* A zero denominator arises only for prev = point (the first iteration),
\* where the quotient is 0/0 = NaN, and NaN as u32 is 0.
Interpolate(prev, point, looted_level) ==
    LET den == point.player_level - prev.player_level
        num == point.item_level - prev.item_level
    IN  IF den = 0 THEN 0
        ELSE IF den > 0
        THEN TruncU32(prev.item_level * den + (looted_level - prev.player_level) * num,
                      den)
        ELSE TruncU32(-(prev.item_level * den + (looted_level - prev.player_level) * num),
                      -den)

RECURSIVE CalcLoopPrevKept(_, _, _, _)
\* mutant of CalcLoop: prev = point is missing, prev stays the first point
CalcLoopPrevKept(points, i, prev, looted_level) ==
    IF i >= Len(points) THEN prev.item_level
    ELSE LET point == At(points, i)
         IN  IF point.player_level = looted_level THEN point.item_level
             ELSE IF looted_level < point.player_level
                  THEN Interpolate(prev, point, looted_level)
             ELSE CalcLoopPrevKept(points, i + 1, prev, looted_level)

RECURSIVE CalcLoop(_, _, _, _)
\* for point in self.points.iter() { ... } prev.item_level as u32
CalcLoop(points, i, prev, looted_level) ==
    IF i >= Len(points) THEN prev.item_level
    ELSE LET point == At(points, i)
         IN  IF point.player_level = looted_level THEN point.item_level
             ELSE IF looted_level < point.player_level
                  THEN Interpolate(prev, point, looted_level)
             ELSE CalcLoop(points, i + 1, point, looted_level)

\* ItemLevelCurve::calc_ilvl(&self, looted_level): Some(level), or Panic on a
\* curve without points (self.points[0])
calc_ilvl(points, looted_level) ==
    IF points = <<>> THEN Panic
    ELSE Some(CalcLoop(points, 0, At(points, 0), looted_level))

\* the curve of the doc example and the tests (curve ID 1748, first points)
DocCurvePoints == <<<<1, 6>>, <<25, 31>>, <<26, 32>>, <<27, 33>>>>

CurveInputs ==
    SeqsUpTo((0..MaxLevel) \X ItemLevelValues, MaxPoints) \cup {DocCurvePoints}

LootedLevels == (0..(MaxLevel + 1)) \cup {7, 26, 60}

InitCurve ==
    /\ points_in \in CurveInputs
    /\ curve = NotRun
    /\ ilvl_call = NotRun
    /\ StatsIdle
    /\ PctIdle
    /\ BonusIdle
    /\ ResolveIdle
    /\ SummaryIdle

\* ItemLevelCurve::from_points(&points_in)
Call_from_points ==
    /\ curve = NotRun
    /\ curve' = Some(from_points(points_in))
    /\ UNCHANGED <<points_in, ilvl_call, statsVars, pctVars, bonusVars, resolveVars, summaryVars>>

\* curve.calc_ilvl(&looted_level)
Call_calc_ilvl ==
    /\ curve # NotRun
    /\ ilvl_call = NotRun
    /\ \E looted_level \in LootedLevels :
          ilvl_call' = [looted_level |-> looted_level,
                        result |-> calc_ilvl(curve.val, looted_level)]
    /\ UNCHANGED <<points_in, curve, statsVars, pctVars, bonusVars, resolveVars, summaryVars>>

NextCurve ==
    \/ Call_from_points
    \/ Call_calc_ilvl

SpecCurve == InitCurve /\ [][NextCurve]_vars

(***************************************************************************)
(* data_tables/item_bonus.rs: Db2ItemBonuses                               *)
(*                                                                         *)
(* A HashMap is a function from its keys; the table is the record of its   *)
(* two maps.  A row that fails to deserialize is the value RowErr.         *)
(***************************************************************************)
EmptyMap == <<>>

\* HashMap::insert(k, v): the value of an existing key is replaced
MapInsert(m, k, v) == [x \in (DOMAIN m) \cup {k} |-> IF x = k THEN v ELSE m[x]]

\* HashMap::get(k)
MapGet(m, k) == IF k \in DOMAIN m THEN Some(m[k]) ELSE None

RowErr == [type_id |-> 0, parent_item_bonus_list_id |-> 0, value0 |-> 0,
           value3 |-> 0, err |-> TRUE]

Db2ItemBonus(parent, type_id, value0, value3) ==
    [type_id |-> type_id, parent_item_bonus_list_id |-> parent, value0 |-> value0,
     value3 |-> value3, err |-> FALSE]

\* mutant of FromCsvRow: a bonus ID that is already a key keeps its value
FromCsvRowFirst(table, bonus) ==
    IF bonus.err THEN table
    ELSE IF bonus.type_id = 1
    THEN IF bonus.parent_item_bonus_list_id \in DOMAIN table.ilvl_adjustments THEN table
         ELSE [table EXCEPT !.ilvl_adjustments =
                   MapInsert(@, bonus.parent_item_bonus_list_id, bonus.value0)]
    ELSE IF bonus.type_id \in {13, 11}
    THEN IF bonus.parent_item_bonus_list_id \in DOMAIN table.curve_ids THEN table
         ELSE [table EXCEPT !.curve_ids =
                   MapInsert(@, bonus.parent_item_bonus_list_id, bonus.value3)]
    ELSE table

\* one iteration of for bonus in iter { ... }; value3 as u32 keeps a
\* non-negative value3
FromCsvRow(table, bonus) ==
    IF bonus.err THEN table
    ELSE IF bonus.type_id = 1
    THEN [table EXCEPT !.ilvl_adjustments =
              MapInsert(@, bonus.parent_item_bonus_list_id, bonus.value0)]
    ELSE IF bonus.type_id \in {13, 11}
    THEN [table EXCEPT !.curve_ids =
              MapInsert(@, bonus.parent_item_bonus_list_id, bonus.value3)]
    ELSE table

RECURSIVE FromCsvLoop(_, _)
FromCsvLoop(table, rows) ==
    IF rows = <<>> THEN table
    ELSE FromCsvLoop(FromCsvRow(table, Head(rows)), Tail(rows))

\* Db2ItemBonuses::from_csv(csv), csv given as its rows
from_csv(rows) ==
    FromCsvLoop([curve_ids |-> EmptyMap, ilvl_adjustments |-> EmptyMap], rows)

RECURSIVE AdjustmentLoop(_, _, _)
\* for bonus_id in bonus_ids { ... adjustment.or(Some(0)).map(|a| a + diff) }
AdjustmentLoop(table, bonus_ids, adjustment) ==
    IF bonus_ids = <<>> THEN adjustment
    ELSE LET bonus_diff == MapGet(table.ilvl_adjustments, Head(bonus_ids))
         IN  AdjustmentLoop(table, Tail(bonus_ids),
                 IF bonus_diff # None
                 THEN Some((IF adjustment = None THEN 0 ELSE adjustment.val)
                           + bonus_diff.val)
                 ELSE adjustment)

\* Db2ItemBonuses::resolve_ilvl_adjustment(&self, bonus_ids)
resolve_ilvl_adjustment(table, bonus_ids) == AdjustmentLoop(table, bonus_ids, None)

\* Db2ItemBonuses::curve_id(&self, bonus_id)
curve_id(table, bonus_id) == MapGet(table.curve_ids, bonus_id)

RECURSIVE HighestLoop(_, _, _)
\* for bonus_id in bonus_ids { ... if curve_id > highest { highest = curve_id } }
HighestLoop(table, bonus_ids, highest) ==
    IF bonus_ids = <<>> THEN highest
    ELSE LET cid == curve_id(table, Head(bonus_ids))
         IN  HighestLoop(table, Tail(bonus_ids),
                 IF cid # None /\ cid.val > highest THEN cid.val ELSE highest)

\* Db2ItemBonuses::resolve_curve_id(&self, bonus_ids)
resolve_curve_id(table, bonus_ids) ==
    LET highest == HighestLoop(table, bonus_ids, 0)
    IN  IF highest = 0 THEN None ELSE Some(highest)

\* ParentItemBonusListID values: 58 and 72 are the tests'
RowBonusIds == {58, 72}
\* Value[0] of the type 1 rows, Value[3] of the type 11 and 13 rows
AdjustmentValues == {-2, 40}
CurveIdValues == {0, 17322, 19932}

\* rows as the game's table holds them: an adjustment row carries Value[0], a
\* curve row Value[3]; type 2 is a bonus of another kind
RowValues ==
    { Db2ItemBonus(b, 1, a, 0) : b \in RowBonusIds, a \in AdjustmentValues }
        \cup { Db2ItemBonus(b, t, 0, c) : b \in RowBonusIds, t \in {11, 13},
                                          c \in CurveIdValues }
        \cup { Db2ItemBonus(b, 2, 5, 0) : b \in RowBonusIds }
        \cup { RowErr }

\* bonus IDs asked for: the rows' and one no row has
AskedBonusIds == RowBonusIds \cup {19}

InitBonus ==
    /\ bonus_rows \in SeqsUpTo(RowValues, MaxRows)
    /\ db2_bonuses = NotRun
    /\ bonus_call = NotRun
    /\ StatsIdle
    /\ PctIdle
    /\ CurveIdle
    /\ ResolveIdle
    /\ SummaryIdle

\* Db2ItemBonuses::from_csv(&csv)
Call_from_csv ==
    /\ db2_bonuses = NotRun
    /\ db2_bonuses' = Some(from_csv(bonus_rows))
    /\ UNCHANGED <<bonus_rows, bonus_call, statsVars, pctVars, curveVars, resolveVars, summaryVars>>

\* table.resolve_curve_id(&bonus_ids)
Call_resolve_curve_id ==
    /\ db2_bonuses # NotRun
    /\ bonus_call = NotRun
    /\ \E bonus_ids \in SeqsUpTo(AskedBonusIds, MaxBonusIds) :
          bonus_call' = [method |-> "resolve_curve_id", bonus_ids |-> bonus_ids,
                         result |-> resolve_curve_id(db2_bonuses.val, bonus_ids)]
    /\ UNCHANGED <<bonus_rows, db2_bonuses, statsVars, pctVars, curveVars, resolveVars, summaryVars>>

\* table.resolve_ilvl_adjustment(&bonus_ids)
Call_resolve_ilvl_adjustment ==
    /\ db2_bonuses # NotRun
    /\ bonus_call = NotRun
    /\ \E bonus_ids \in SeqsUpTo(AskedBonusIds, MaxBonusIds) :
          bonus_call' = [method |-> "resolve_ilvl_adjustment", bonus_ids |-> bonus_ids,
                         result |-> resolve_ilvl_adjustment(db2_bonuses.val, bonus_ids)]
    /\ UNCHANGED <<bonus_rows, db2_bonuses, statsVars, pctVars, curveVars, resolveVars, summaryVars>>

NextBonus ==
    \/ Call_from_csv
    \/ Call_resolve_curve_id
    \/ Call_resolve_ilvl_adjustment

SpecBonus == InitBonus /\ [][NextBonus]_vars

(***************************************************************************)
(* parse/summary.rs: the item level resolver                               *)
(*                                                                         *)
(* A u32 that may exceed the checker's integers is held as its two 16-bit  *)
(* halves.  The reference tables a summarization is given are fixed here:  *)
(* an item bonus table, the curves, the base item levels, the item to pet  *)
(* species map and the set of equippable items.                            *)
(***************************************************************************)
\* a value n of 0 .. 2^31 - 1 as a u32
U32(n) == [hi |-> n \div 65536, lo |-> n % 65536]

\* n as u32 for an i32 n: a negative n is n + 2^32
I32AsU32(n) ==
    IF n >= 0 THEN U32(n)
    ELSE [hi |-> 65535 - ((-n - 1) \div 65536), lo |-> 65535 - ((-n - 1) % 65536)]

\* the rows of the item bonus table: 58 and 72 adjust the level, 6908, 6885,
\* 7000 and 6000 carry a curve, 6908 an adjustment as well
ItemBonusRows ==
    << Db2ItemBonus(58, 1, -2, 0), Db2ItemBonus(72, 1, 40, 0),
       Db2ItemBonus(6908, 13, 0, 17967), Db2ItemBonus(6885, 11, 0, 19995),
       Db2ItemBonus(7000, 11, 0, 4242), Db2ItemBonus(6000, 11, 0, 0),
       Db2ItemBonus(6908, 1, 7, 0) >>

Db2Bonuses == from_csv(ItemBonusRows)

\* curve_points: curve 4242 is not in the table
CurvePointsTable ==
    [c \in {17967, 19995} |->
        IF c = 17967 THEN from_points(DocCurvePoints)
        ELSE from_points(<<<<60, 100>>, <<1, 41>>>>)]

\* base_ilvls.get(&id).unwrap_or(&1): the table knows items 1001, 2589, 8485
BaseItemLevel(id) ==
    IF id = 1001 THEN 50
    ELSE IF id = 2589 THEN 5
    ELSE IF id = 8485 THEN 20
    ELSE 1

ItemModifier(modifier_type, value) == [modifier_type |-> modifier_type, value |-> value]

Item(id, bonus_lists, modifiers, breed, level, quality, species) ==
    [id |-> id, bonus_lists |-> bonus_lists, modifiers |-> modifiers,
     pet_breed_id |-> breed, pet_level |-> level, pet_quality_id |-> quality,
     pet_species_id |-> species]

\* AuctionsSummary::find_ilvl_adjustment(item, db2_bonuses)
find_ilvl_adjustment(item) ==
    IF item.bonus_lists # None
    THEN resolve_ilvl_adjustment(Db2Bonuses, item.bonus_lists.val)
    ELSE None

\* AuctionsSummary::find_curve_id(item, db2_bonuses)
find_curve_id(item) ==
    IF item.bonus_lists # None
    THEN resolve_curve_id(Db2Bonuses, item.bonus_lists.val)
    ELSE None

RECURSIVE DropLevelLoop(_)
\* for modifier in modifiers { if modifier.modifier_type == 9 { return ... } }
\* modifier.value as u32 keeps a value below 2^32
DropLevelLoop(modifiers) ==
    IF modifiers = <<>> THEN None
    ELSE IF Head(modifiers).modifier_type = 9 THEN Some(Head(modifiers).value)
    ELSE DropLevelLoop(Tail(modifiers))

\* AuctionsSummary::drop_level(item)
drop_level(item) ==
    IF item.modifiers # None THEN DropLevelLoop(item.modifiers.val) ELSE None

\* mutant of AdjustedLevel: a negative sum is clamped to 0
AdjustedLevelClamped(item) ==
    LET adjustment == find_ilvl_adjustment(item)
    IN  IF adjustment # None
        THEN IF BaseItemLevel(item.id) + adjustment.val < 0 THEN U32(0)
             ELSE U32(BaseItemLevel(item.id) + adjustment.val)
        ELSE U32(BaseItemLevel(item.id))

\* the level of the adjustment arm: (base_level + adjustment) as u32
AdjustedLevel(item) ==
    LET adjustment == find_ilvl_adjustment(item)
    IN  IF adjustment # None
        THEN I32AsU32(BaseItemLevel(item.id) + adjustment.val)
        ELSE U32(BaseItemLevel(item.id))

\* mutant of resolve_item_level: an item with a curve ID and no drop level or
\* no curve takes the adjustment arm
resolve_item_level_adjusting(item, is_equippable) ==
    IF is_equippable
    THEN LET found == find_curve_id(item)
             level == drop_level(item)
         IN  IF found # None /\ level # None /\ found.val \in DOMAIN CurvePointsTable
             THEN U32(calc_ilvl(CurvePointsTable[found.val], level.val).val)
             ELSE AdjustedLevel(item)
    ELSE U32(BaseItemLevel(item.id))

\* AuctionsSummary::resolve_item_level(item, is_equippable, db2_bonuses,
\* base_ilvls, curve_points); a curve of the table has at least one point
resolve_item_level(item, is_equippable) ==
    IF is_equippable
    THEN LET found == find_curve_id(item)
         IN  IF found # None
             THEN LET level == drop_level(item)
                  IN  IF level # None
                      THEN IF found.val \in DOMAIN CurvePointsTable
                           THEN U32(calc_ilvl(CurvePointsTable[found.val],
                                              level.val).val)
                           ELSE U32(BaseItemLevel(item.id))
                      ELSE U32(BaseItemLevel(item.id))
             ELSE AdjustedLevel(item)
    ELSE U32(BaseItemLevel(item.id))

\* bonus IDs on an item: those of the table and one it does not hold
ItemBonusIds == {58, 72, 6908, 6885, 7000, 6000, 19}

\* modifiers on an item: type 9 is the drop level, type 28 another kind
ModifierValues ==
    { ItemModifier(9, 7), ItemModifier(9, 26), ItemModifier(9, 60), ItemModifier(28, 2157) }

OptionOf(S) == {None} \cup { Some(x) : x \in S }

\* items that are not pets: 1001 has a known base level, 1002 has none
GearItems ==
    { Item(id, b, m, None, None, None, None) :
        id \in {1001, 1002},
        b \in OptionOf(SeqsUpTo(ItemBonusIds, MaxBonusIds)),
        m \in OptionOf(SeqsUpTo(ModifierValues, MaxModifiers)) }

InitResolve ==
    /\ resolve_call = NotRun
    /\ StatsIdle
    /\ PctIdle
    /\ CurveIdle
    /\ BonusIdle
    /\ SummaryIdle

\* Self::resolve_item_level(&auction.item, is_equippable, ...)
Call_resolve_item_level ==
    /\ resolve_call = NotRun
    /\ \E item \in GearItems, is_equippable \in BOOLEAN :
          resolve_call' = [item |-> item, is_equippable |-> is_equippable,
                           result |-> resolve_item_level(item, is_equippable)]
    /\ UNCHANGED <<statsVars, pctVars, curveVars, bonusVars, summaryVars>>

NextResolve == Call_resolve_item_level

SpecResolve == InitResolve /\ [][NextResolve]_vars

(***************************************************************************)
(* parse/summary.rs: AuctionsSummary::from_auction_file                    *)
(*                                                                         *)
(* A reference to an auction is the auction; its id is its place in the    *)
(* snapshot.  One action is one pass through the body of the loop, by the  *)
(* path the auction takes; the last action builds the summaries.           *)
(***************************************************************************)
Auction(id, quantity, item, unit_price, buyout, bid) ==
    [id |-> id, quantity |-> quantity, item |-> item, unit_price |-> unit_price,
     buyout |-> buyout, bid |-> bid]

\* mutant of pet: a species ID alone makes a pet cage
pet_by_species(item) ==
    IF item.pet_species_id # None
    THEN Some([breed |-> item.pet_breed_id, level |-> item.pet_level,
               quality |-> item.pet_quality_id, species |-> item.pet_species_id.val])
    ELSE None

\* Item::pet(&self)
pet(item) ==
    IF /\ item.pet_breed_id # None
       /\ item.pet_level # None
       /\ item.pet_quality_id # None
       /\ item.pet_species_id # None
    THEN Some([breed |-> item.pet_breed_id.val, level |-> item.pet_level.val,
               quality |-> item.pet_quality_id.val,
               species |-> item.pet_species_id.val])
    ELSE None

\* AuctionsSummary::use_auction(auction)
use_auction(auction) == auction.buyout # None \/ auction.unit_price # None

\* AuctionsSummary::auction_price(auction): buyout.or(unit_price).unwrap()
auction_price(auction) ==
    IF auction.buyout # None THEN auction.buyout.val ELSE auction.unit_price.val

\* item_to_pet: item 8485 teaches species 39
ItemToPet == [id \in {8485} |-> 39]

\* equippable_items
EquippableItems == {1001, 1002}

\* map.entry(k).or_insert_with(Vec::new).push(x)
MapPush(m, k, x) == MapInsert(m, k, (IF k \in DOMAIN m THEN m[k] ELSE <<>>) \o <<x>>)

\* *(map.entry(k).or_insert(0)) += n
MapAdd(m, k, n) == MapInsert(m, k, (IF k \in DOMAIN m THEN m[k] ELSE 0) + n)

\* map.entry(k).or_insert_with(HashMap::new).entry(l).or_insert_with(Vec::new).push(x)
MapPushNested(m, k, l, x) ==
    MapInsert(m, k, MapPush(IF k \in DOMAIN m THEN m[k] ELSE EmptyMap, l, x))

\* the ItemSummary of one key, its prices left in the order sorted by the
\* estimator's unstable sort: None when the estimator returns None
ItemSummaryOf(prices, sorted, num_auctions, total_qty) ==
    LET mp == normalized_market_price_with_qty(prices, sorted)
        \* the estimator's two early returns come before its sort
        after == IF prices = <<>> \/ SumQty(prices) = 1 THEN prices ELSE sorted
        sd == std_dev_amount_qty(after, TRUE)
    IN  IF mp = Panic THEN Panic
        ELSE IF mp = None THEN None
        ELSE Some([market_price |-> mp.val,
                   std_dev |-> IF sd = None THEN <<0, 1>> ELSE sd.val,
                   min_buyout |-> At(after, 0)[1],
                   num_auctions |-> num_auctions,
                   total_qty |-> total_qty])

\* what the loop over the prices of a map can insert: for every key one of
\* the summaries its sort can lead to
SummariesOf(prices, num_aucs, total_qty) ==
    LET Options(key) ==
            { ItemSummaryOf(prices[key], sorted, num_aucs[key], total_qty[key]) :
                sorted \in SortedByPrice(prices[key]) }
    IN  { f \in [DOMAIN prices -> UNION { Options(key) : key \in DOMAIN prices }] :
            \A key \in DOMAIN prices : f[key] \in Options(key) }

Panics(f) == \E key \in DOMAIN f : f[key] = Panic

\* mutant of insert_item_summary: a key of a single unit gets no summary
insert_item_summary_several(f) ==
    [key \in { k \in DOMAIN f : f[k] # None /\ f[k].val.total_qty >= 2 } |-> f[key].val]

\* AuctionsSummary::insert_item_summary(prices, items, num_aucs, total_qty):
\* the map items, from the summaries f
insert_item_summary(f) ==
    [key \in { k \in DOMAIN f : f[k] # None } |-> f[key].val]

\* for (key, prices) in &mut ilvl_prices { ... ilvl_items.entry(key.0)
\*     .or_insert_with(HashMap::new).insert(key.1, ItemSummary { ... }) }
insert_ilvl_summary(f) ==
    LET keys == { k \in DOMAIN f : f[k] # None }
    IN  [id \in { k[1] : k \in keys } |->
            [level \in { k[2] : k \in { kk \in keys : kk[1] = id } } |->
                f[<<id, level>>].val]]

\* the auctions of the snapshot: (quantity, item, unit_price, buyout, bid)
\* cloth 2589 sold by the unit, a bid-only lot, a lot of quantity 0 (the
\* quantity is any u16 of the JSON), the pet cage 82800 whole and
\* with its breed missing, the pet item 8485 as an item and caged, and gear
\* 1001 and 1002 with a curve, an adjustment, or no bonus
NoPet(id, bonus_lists, modifiers) == Item(id, bonus_lists, modifiers, None, None, None, None)

AuctionShapes ==
    { <<1, NoPet(2589, None, None), Some(1), None, None>>,
      <<1, NoPet(2589, None, None), Some(5), None, None>>,
      <<5, NoPet(2589, None, None), Some(5), None, Some(3)>>,
      <<2, NoPet(2589, None, None), None, None, Some(3)>>,
      <<0, NoPet(2589, None, None), Some(1), None, None>>,
      <<1, Item(82800, None, None, Some(3), Some(25), Some(3), Some(39)),
        None, Some(10), None>>,
      <<1, Item(82800, None, None, None, Some(25), Some(3), Some(39)),
        None, Some(6), None>>,
      <<1, NoPet(8485, None, None), Some(1), Some(6), Some(1)>>,
      <<1, Item(8485, None, None, Some(5), Some(1), Some(2), Some(40)),
        None, Some(5), None>>,
      <<1, NoPet(1001, Some(<<6908, 58>>), Some(<<ItemModifier(9, 26)>>)),
        None, Some(10), Some(6)>>,
      <<1, NoPet(1001, Some(<<58>>), None), None, Some(5), None>>,
      <<1, NoPet(1001, None, None), None, Some(6), None>>,
      <<1, NoPet(1002, Some(<<58>>), None), None, Some(1), None>> }

AuctionFiles ==
    { [i \in 1..Len(shapes) |->
          Auction(i, shapes[i][1], shapes[i][2], shapes[i][3], shapes[i][4],
                  shapes[i][5])] :
        shapes \in SeqsUpTo(AuctionShapes, MaxAuctions) }

InitSummary ==
    /\ auction_file \in AuctionFiles
    /\ pos = 0
    /\ all_prices = EmptyMap /\ all_qty = EmptyMap /\ all_num_auc = EmptyMap
    /\ item_auctions = EmptyMap
    /\ pet_prices = EmptyMap /\ pet_qty = EmptyMap /\ pet_num_auc = EmptyMap
    /\ pet_auctions = EmptyMap
    /\ ilvl_prices = EmptyMap /\ ilvl_qty = EmptyMap /\ ilvl_num_auc = EmptyMap
    /\ item_level_auctions = EmptyMap
    /\ summary = NotRun
    /\ StatsIdle
    /\ PctIdle
    /\ CurveIdle
    /\ BonusIdle
    /\ ResolveIdle

\* the auction the loop is at
Current == auction_file[pos + 1]

\* mutant of Loop_bid_only: the auction is listed under its item
Loop_bid_only_listed ==
    /\ pos < Len(auction_file)
    /\ ~use_auction(Current)
    /\ item_auctions' = MapPush(item_auctions, Current.item.id, Current)
    /\ pos' = pos + 1
    /\ UNCHANGED <<auction_file, all_prices, all_qty, all_num_auc, petVars, ilvlVars,
                   summary>>
    /\ UNCHANGED <<statsVars, pctVars, curveVars, bonusVars, resolveVars>>

\* if !Self::use_auction(&auction) { continue; }
Loop_bid_only ==
    /\ pos < Len(auction_file)
    /\ ~use_auction(Current)
    /\ pos' = pos + 1
    /\ UNCHANGED <<auction_file, allVars, petVars, ilvlVars, summary>>
    /\ UNCHANGED <<statsVars, pctVars, curveVars, bonusVars, resolveVars>>

\* mutant of AddToAll: the auction count goes up by the units of the auction
AddToAllByUnits(auction, price) ==
    /\ all_prices' = MapPush(all_prices, auction.item.id, <<price, auction.quantity>>)
    /\ all_qty' = MapAdd(all_qty, auction.item.id, auction.quantity)
    /\ all_num_auc' = MapAdd(all_num_auc, auction.item.id, auction.quantity)
    /\ item_auctions' = MapPush(item_auctions, auction.item.id, auction)

\* the loop's body from "Add to all prices" to "add the auction to all auctions"
AddToAll(auction, price) ==
    /\ all_prices' = MapPush(all_prices, auction.item.id, <<price, auction.quantity>>)
    /\ all_qty' = MapAdd(all_qty, auction.item.id, auction.quantity)
    /\ all_num_auc' = MapAdd(all_num_auc, auction.item.id, 1)
    /\ item_auctions' = MapPush(item_auctions, auction.item.id, auction)

\* AuctionsSummary::insert_pet_auctions(auction, species_id, price, ...)
insert_pet_auctions(auction, species_id, price) ==
    /\ pet_prices' = MapPush(pet_prices, species_id, <<price, auction.quantity>>)
    /\ pet_auctions' = MapPush(pet_auctions, species_id, auction)
    /\ pet_qty' = MapAdd(pet_qty, species_id, auction.quantity)
    /\ pet_num_auc' = MapAdd(pet_num_auc, species_id, 1)

\* if let Some(pet_cage) = auction.item.pet() { ...; continue; }
Loop_pet_cage ==
    /\ pos < Len(auction_file)
    /\ use_auction(Current)
    /\ pet(Current.item) # None
    /\ AddToAll(Current, auction_price(Current))
    /\ insert_pet_auctions(Current, pet(Current.item).val.species,
                           auction_price(Current))
    /\ pos' = pos + 1
    /\ UNCHANGED <<auction_file, ilvlVars, summary>>
    /\ UNCHANGED <<statsVars, pctVars, curveVars, bonusVars, resolveVars>>

\* if let Some(species_id) = item_to_pet.get(&auction.item.id) { ...; continue; }
Loop_item_to_pet ==
    /\ pos < Len(auction_file)
    /\ use_auction(Current)
    /\ pet(Current.item) = None
    /\ Current.item.id \in DOMAIN ItemToPet
    /\ AddToAll(Current, auction_price(Current))
    /\ insert_pet_auctions(Current, ItemToPet[Current.item.id],
                           auction_price(Current))
    /\ pos' = pos + 1
    /\ UNCHANGED <<auction_file, ilvlVars, summary>>
    /\ UNCHANGED <<statsVars, pctVars, curveVars, bonusVars, resolveVars>>

\* the rest of the body: the auction goes by its item and effective level
Loop_item_level ==
    /\ pos < Len(auction_file)
    /\ use_auction(Current)
    /\ pet(Current.item) = None
    /\ Current.item.id \notin DOMAIN ItemToPet
    /\ AddToAll(Current, auction_price(Current))
    /\ LET is_equippable == Current.item.id \in EquippableItems
           effective_level == resolve_item_level(Current.item, is_equippable)
           ilvl_key == <<Current.item.id, effective_level>>
       IN  /\ ilvl_prices' = MapPush(ilvl_prices, ilvl_key,
                                     <<auction_price(Current), Current.quantity>>)
           /\ item_level_auctions' = MapPushNested(item_level_auctions,
                                         Current.item.id, effective_level, Current)
           /\ ilvl_qty' = MapAdd(ilvl_qty, ilvl_key, Current.quantity)
           /\ ilvl_num_auc' = MapAdd(ilvl_num_auc, ilvl_key, 1)
    /\ pos' = pos + 1
    /\ UNCHANGED <<auction_file, petVars, summary>>
    /\ UNCHANGED <<statsVars, pctVars, curveVars, bonusVars, resolveVars>>

\* after the loop: the three maps of summaries and the AuctionsSummary returned
Summarize ==
    /\ pos = Len(auction_file)
    /\ summary = NotRun
    /\ \E all_items \in SummariesOf(all_prices, all_num_auc, all_qty),
          pet_items \in SummariesOf(pet_prices, pet_num_auc, pet_qty),
          ilvl_items \in SummariesOf(ilvl_prices, ilvl_num_auc, ilvl_qty) :
          summary' =
              IF Panics(all_items) \/ Panics(pet_items) \/ Panics(ilvl_items)
              THEN Panic
              ELSE Some([item_auctions |-> item_auctions,
                         item_level_auctions |-> item_level_auctions,
                         pet_auctions |-> pet_auctions,
                         item_summaries |-> insert_item_summary(all_items),
                         item_level_summaries |-> insert_ilvl_summary(ilvl_items),
                         pet_summaries |-> insert_item_summary(pet_items)])
    /\ UNCHANGED <<auction_file, pos, allVars, petVars, ilvlVars>>
    /\ UNCHANGED <<statsVars, pctVars, curveVars, bonusVars, resolveVars>>

NextSummary ==
    \/ Loop_bid_only
    \/ Loop_pet_cage
    \/ Loop_item_to_pet
    \/ Loop_item_level
    \/ Summarize

SpecSummary == InitSummary /\ [][NextSummary]_vars

(***************************************************************************)
(* The estimators wherever they run: called by a caller on a slice, or by  *)
(* from_auction_file on the price series of its buckets.  A run is one or  *)
(* the other: a caller's calls while no snapshot is summarized, or a       *)
(* summarization while no caller holds a slice.                            *)
(***************************************************************************)
InitEstimates == InitStats \/ InitSummary

NextEstimates ==
    \/ SummaryIdle /\ NextStats
    \/ StatsIdle /\ NextSummary

SpecEstimates == InitEstimates /\ [][NextEstimates]_vars

(***************************************************************************)
(* Claims                                                                  *)
(***************************************************************************)
PositiveQtys(pq) == \A i \in 1..Len(pq) : pq[i][2] > 0

\* C1: equivalence law.  For every non-empty series of (price, quantity) pairs
\* with positive quantities, normalized_market_price_with_qty returns the same
\* value as normalized_market_price on the flat list that repeats each price
\* quantity times.
C1_EquivalenceLaw ==
    (/\ mp_with_qty # NotRun
     /\ mp_flat # NotRun
     /\ price_qty # <<>>
     /\ PositiveQtys(price_qty))
        => mp_with_qty = mp_flat

\* C2: for every percentile p >= 0 and every length n >= 1,
\* percentile_index(p, n) returns an index strictly smaller than n.
C2_PercentileIndexBelowLen ==
    (/\ pct_call # NotRun
     /\ pct_call.percentile >= 0
     /\ pct_call.len >= 1)
        => (IsSome(pct_call.result) /\ pct_call.result.val < pct_call.len)

(***************************************************************************)
(* Claims on the item level curve (SpecCurve)                              *)
(***************************************************************************)
CalcDone == ilvl_call # NotRun /\ curve # NotRun
Looted == ilvl_call.looted_level

\* y0 + (x - x0)*(y1 - y0)/(x1 - x0) for x0 # x1, truncated toward zero, a
\* negative value read as level 0
LinearThrough(x0, y0, x1, y1, x) ==
    LET num == y0 * (x1 - x0) + (x - x0) * (y1 - y0)
        den == x1 - x0
    IN  IF den > 0
        THEN (IF num <= 0 THEN 0 ELSE num \div den)
        ELSE (IF num >= 0 THEN 0 ELSE (-num) \div (-den))

\* C3: when the drop level is below the first (smallest-x) control point of a
\* curve with at least two points, calc_ilvl returns the value linearly
\* extrapolated backward through the first two control points, truncated.
C3_BackwardExtrapolation ==
    (/\ CalcDone
     /\ Len(curve.val) >= 2
     /\ Looted < curve.val[1].player_level
     /\ curve.val[1].player_level # curve.val[2].player_level)
        => ilvl_call.result =
             Some(LinearThrough(curve.val[1].player_level, curve.val[1].item_level,
                                curve.val[2].player_level, curve.val[2].item_level,
                                Looted))

\* C4 as stated: for every control point (x, y) given to from_points,
\* calc_ilvl(x) returns y, including when several control points share x.
C4_EveryControlPoint ==
    CalcDone =>
        \A i \in 1..Len(points_in) :
            points_in[i][1] = Looted => ilvl_call.result = Some(points_in[i][2])

\* C4 as amended: for every control point (x, y) given to from_points that is
\* the first of the given points with that x (every point, when the x are
\* distinct), calc_ilvl(x) returns y.
C4_FirstControlPointOfX ==
    CalcDone =>
        \A i \in 1..Len(points_in) :
            (/\ points_in[i][1] = Looted
             /\ \A j \in 1..(i - 1) : points_in[j][1] # Looted)
                => ilvl_call.result = Some(points_in[i][2])

\* calc_ilvl was asked the x shared by two control points of different y, and
\* returned the y of the first
C4_Witness ==
    /\ CalcDone
    /\ \E i, j \in 1..Len(points_in) :
          /\ i < j
          /\ points_in[i][1] = Looted
          /\ points_in[j][1] = Looted
          /\ points_in[i][2] # points_in[j][2]
          /\ \A k \in 1..(i - 1) : points_in[k][1] # Looted
          /\ ilvl_call.result = Some(points_in[i][2])

MaxX(points) == CHOOSE m \in { points[i][1] : i \in 1..Len(points) } :
                    \A i \in 1..Len(points) : points[i][1] <= m

\* the last of the given points whose x is the largest
LastOfMaxX(points) ==
    CHOOSE i \in 1..Len(points) :
        /\ points[i][1] = MaxX(points)
        /\ \A j \in (i + 1)..Len(points) : points[j][1] # MaxX(points)

\* C5: for every non-empty curve and every drop level greater than every
\* control point's x, calc_ilvl returns the item level of the control point
\* with the largest x (the last given of them), unchanged: no forward
\* extrapolation, single-point curves included.
C5_BeyondLastPoint ==
    (/\ CalcDone
     /\ points_in # <<>>
     /\ \A i \in 1..Len(points_in) : points_in[i][1] < Looted)
        => ilvl_call.result = Some(points_in[LastOfMaxX(points_in)][2])

\* calc_ilvl was asked a level beyond a rising curve of several points and
\* returned the last level, below what the last segment would extrapolate to
C5_Witness ==
    /\ CalcDone
    /\ Len(points_in) >= 2
    /\ \A i \in 1..Len(points_in) : points_in[i][1] < Looted
    /\ \E i \in 1..Len(points_in) : points_in[i][2] < points_in[LastOfMaxX(points_in)][2]
    /\ ilvl_call.result = Some(points_in[LastOfMaxX(points_in)][2])

\* C6: for a drop level x strictly between two consecutive control points
\* (x0,y0), (x1,y1) of the sorted curve and equal to no control point's x,
\* calc_ilvl returns y0 + (x - x0)*(y1 - y0)/(x1 - x0) truncated toward zero,
\* never rounded up; 12 for x = 7 on [(1,6),(25,31),(26,32),(27,33)].
C6_Interpolation ==
    CalcDone =>
        /\ \A i \in 1..(Len(curve.val) - 1) :
              (/\ curve.val[i].player_level < Looted
               /\ Looted < curve.val[i + 1].player_level)
                  => ilvl_call.result =
                       Some(LinearThrough(curve.val[i].player_level,
                                          curve.val[i].item_level,
                                          curve.val[i + 1].player_level,
                                          curve.val[i + 1].item_level,
                                          Looted))
        /\ (points_in = DocCurvePoints /\ Looted = 7) => ilvl_call.result = Some(12)

\* an interpolated level whose exact value has a fraction above one half, and
\* calc_ilvl returned the integer below it
C6_Witness ==
    /\ CalcDone
    /\ \E i \in 1..(Len(curve.val) - 1) :
          LET x0 == curve.val[i].player_level
              y0 == curve.val[i].item_level
              x1 == curve.val[i + 1].player_level
              y1 == curve.val[i + 1].item_level
              num == y0 * (x1 - x0) + (Looted - x0) * (y1 - y0)
          IN  /\ x0 < Looted
              /\ Looted < x1
              /\ 2 * (num % (x1 - x0)) > x1 - x0
              /\ ilvl_call.result = Some(num \div (x1 - x0))

(***************************************************************************)
(* Claims on the item bonus table (SpecBonus)                              *)
(***************************************************************************)
CurveCallDone == bonus_call # NotRun /\ bonus_call.method = "resolve_curve_id"

\* the curve IDs the bonus IDs of the call map to
MappedCurveIds(table, bonus_ids) ==
    { table.curve_ids[bonus_ids[i]] :
        i \in { j \in 1..Len(bonus_ids) : bonus_ids[j] \in DOMAIN table.curve_ids } }

SetMax(S) == CHOOSE m \in S : \A x \in S : x <= m

\* C7: resolve_curve_id returns the maximum of the curve IDs the
\* given bonus IDs map to whenever at least one bonus ID maps to a curve ID,
\* and returns no value only when none of them maps to a curve ID.
C7_MaxCurveId ==
    CurveCallDone =>
        LET ids == MappedCurveIds(db2_bonuses.val, bonus_call.bonus_ids)
        IN  bonus_call.result = IF ids # {} THEN Some(SetMax(ids)) ELSE None

(***************************************************************************)
(* Claims on the item level resolver (SpecResolve)                         *)
(***************************************************************************)
\* the bonus IDs of the resolved item, none when it has no bonus list
BonusIdsOf(item) == IF item.bonus_lists = None THEN <<>> ELSE item.bonus_lists.val

\* the values of the type 9 modifiers of the item, in the item's order
DropLevelsOf(item) ==
    IF item.modifiers = None THEN <<>>
    ELSE SelectSeq(item.modifiers.val, LAMBDA m : m.modifier_type = 9)

\* the adjustments of the bonus IDs of the item that map to one
AdjustmentsOf(item) ==
    LET mapped == SelectSeq(BonusIdsOf(item),
                            LAMBDA b : b \in DOMAIN Db2Bonuses.ilvl_adjustments)
    IN  [i \in 1..Len(mapped) |-> Db2Bonuses.ilvl_adjustments[mapped[i]]]

\* an equippable item was resolved and its bonus IDs resolve to a curve ID
CurveCase ==
    /\ resolve_call # NotRun
    /\ resolve_call.is_equippable
    /\ find_curve_id(resolve_call.item) # None

\* an equippable item was resolved and its bonus IDs resolve to no curve ID
NoCurveCase ==
    /\ resolve_call # NotRun
    /\ resolve_call.is_equippable
    /\ find_curve_id(resolve_call.item) = None

\* C8: for an equippable item whose bonus IDs resolve to a curve ID, the level
\* is calc_ilvl(drop level) of the curve of the largest curve ID when the item
\* has a modifier of type 9 and that curve ID is in the curve table, and the
\* base item level (1 if unknown) otherwise; no adjustment is applied.
C8_CurvePath ==
    CurveCase =>
        LET item == resolve_call.item
            chosen == SetMax(MappedCurveIds(Db2Bonuses, BonusIdsOf(item)))
            levels == DropLevelsOf(item)
        IN  resolve_call.result =
                IF levels # <<>> /\ chosen \in DOMAIN CurvePointsTable
                THEN U32(calc_ilvl(CurvePointsTable[chosen], levels[1].value).val)
                ELSE U32(BaseItemLevel(item.id))

\* an item with a curve bonus and an adjustment bonus was resolved through its
\* curve, to a level other than its base level, adjusted or not
C8_Witness ==
    /\ CurveCase
    /\ AdjustmentsOf(resolve_call.item) # <<>>
    /\ DropLevelsOf(resolve_call.item) # <<>>
    /\ resolve_call.item.id = 1001
    /\ resolve_call.result = U32(32)
    /\ resolve_call.result # U32(BaseItemLevel(1001))
    /\ resolve_call.result
          # U32(BaseItemLevel(1001) + SumSeq(AdjustmentsOf(resolve_call.item)))

\* C9: for an equippable item with no resolving curve ID the level is the base
\* item level (1 if unknown) plus the sum of the adjustments of the bonus IDs
\* that map to one, and the base item level when none maps to one.
C9_AdjustmentPath ==
    NoCurveCase =>
        LET item == resolve_call.item
            level == BaseItemLevel(item.id) + SumSeq(AdjustmentsOf(item))
        IN  /\ level >= 0
            /\ resolve_call.result = U32(level)

\* C25: in the flat-adjustment path of resolve_item_level, when the base item
\* level plus the summed adjustment is negative, the call returns a level, not
\* an error, and the level is not clamped: it is that sum modulo 2^32, that is
\* 2^32 - 1 - level = -sum - 1, stated on the two 16-bit halves of the level.
C25_NegativeSumWraps ==
    (/\ NoCurveCase
     /\ AdjustmentsOf(resolve_call.item) # <<>>
     /\ BaseItemLevel(resolve_call.item.id) + SumSeq(AdjustmentsOf(resolve_call.item)) < 0)
        => LET sum == BaseItemLevel(resolve_call.item.id)
                         + SumSeq(AdjustmentsOf(resolve_call.item))
               level == resolve_call.result
           IN  /\ level \in [hi : 0..65535, lo : 0..65535]
               /\ 65535 - level.hi = (-sum - 1) \div 65536
               /\ 65535 - level.lo = (-sum - 1) % 65536

\* an equippable item of base level 1 whose two adjustments of -2 give -3:
\* the level is 4294967293
C25_Witness ==
    /\ NoCurveCase
    /\ BaseItemLevel(resolve_call.item.id) + SumSeq(AdjustmentsOf(resolve_call.item)) = -3
    /\ resolve_call.result = [hi |-> 65535, lo |-> 65533]

(***************************************************************************)
(* Claims on the summarizer (SpecSummary)                                  *)
(***************************************************************************)
\* the auction has a buyout or a unit price
Usable(auction) == auction.buyout # None \/ auction.unit_price # None

AllFourPetFields(item) ==
    /\ item.pet_breed_id # None
    /\ item.pet_level # None
    /\ item.pet_quality_id # None
    /\ item.pet_species_id # None

SomePetField(item) ==
    \/ item.pet_breed_id # None
    \/ item.pet_level # None
    \/ item.pet_quality_id # None
    \/ item.pet_species_id # None

\* how many times the list holds the auction
CountIn(list, auction) == Cardinality({ i \in 1..Len(list) : list[i] = auction })

\* the species whose pet bucket holds the auction
PetBucketsOf(auction) ==
    { species \in DOMAIN pet_auctions : CountIn(pet_auctions[species], auction) > 0 }

\* the (item id, level) pairs whose bucket holds the auction
LevelBucketsOf(auction) ==
    UNION { { <<id, level>> :
                level \in { l \in DOMAIN item_level_auctions[id] :
                               CountIn(item_level_auctions[id][l], auction) > 0 } } :
            id \in DOMAIN item_level_auctions }

\* how many times the auction is held, over all pet and (item id, level) buckets
Placements(auction) ==
    LET PetCount[S \in SUBSET DOMAIN pet_auctions] ==
            IF S = {} THEN 0
            ELSE LET species == CHOOSE x \in S : TRUE
                 IN  CountIn(pet_auctions[species], auction) + PetCount[S \ {species}]
        keys == UNION { { <<id, level>> : level \in DOMAIN item_level_auctions[id] } :
                        id \in DOMAIN item_level_auctions }
        LevelCount[S \in SUBSET keys] ==
            IF S = {} THEN 0
            ELSE LET key == CHOOSE x \in S : TRUE
                 IN  CountIn(item_level_auctions[key[1]][key[2]], auction)
                         + LevelCount[S \ {key}]
    IN  PetCount[DOMAIN pet_auctions] + LevelCount[keys]

\* C10: every usable auction the loop has gone through is held exactly once,
\* in a pet bucket or in an (item id, level) bucket and never in both: when
\* its four pet fields are present, in the pet bucket of its own species;
\* else when its item ID is in the item to pet table, in the pet bucket of
\* that species; else in the bucket of its item ID and resolved level.  An
\* item with a pet field missing is not a pet cage.
C10_Classification ==
    \A i \in 1..pos :
        LET auction == auction_file[i]
            item == auction.item
        IN  Usable(auction) =>
                /\ Placements(auction) = 1
                /\ IF AllFourPetFields(item)
                   THEN /\ PetBucketsOf(auction) = {item.pet_species_id.val}
                        /\ LevelBucketsOf(auction) = {}
                   ELSE IF item.id \in DOMAIN ItemToPet
                   THEN /\ PetBucketsOf(auction) = {ItemToPet[item.id]}
                        /\ LevelBucketsOf(auction) = {}
                   ELSE /\ PetBucketsOf(auction) = {}
                        /\ LevelBucketsOf(auction) =
                              {<<item.id, resolve_item_level(item,
                                              item.id \in EquippableItems)>>}

\* the loop has placed a cage with a pet field missing by its item and level,
\* a caged pet whose item is in the item to pet table by the species of the
\* cage, and an uncaged item of that table by the species of the table
C10_Witness ==
    \E i, j, k \in 1..pos :
        /\ Usable(auction_file[i])
        /\ SomePetField(auction_file[i].item)
        /\ ~AllFourPetFields(auction_file[i].item)
        /\ LevelBucketsOf(auction_file[i]) # {}
        /\ PetBucketsOf(auction_file[i]) = {}
        /\ AllFourPetFields(auction_file[j].item)
        /\ auction_file[j].item.id \in DOMAIN ItemToPet
        /\ ItemToPet[auction_file[j].item.id] # auction_file[j].item.pet_species_id.val
        /\ PetBucketsOf(auction_file[j]) = {auction_file[j].item.pet_species_id.val}
        /\ ~AllFourPetFields(auction_file[k].item)
        /\ auction_file[k].item.id \in DOMAIN ItemToPet
        /\ PetBucketsOf(auction_file[k]) = {ItemToPet[auction_file[k].item.id]}

\* how many times the auction is held by the lists of item_auctions
ItemPlacements(auction) ==
    LET Count[S \in SUBSET DOMAIN item_auctions] ==
            IF S = {} THEN 0
            ELSE LET id == CHOOSE x \in S : TRUE
                 IN  CountIn(item_auctions[id], auction) + Count[S \ {id}]
    IN  Count[DOMAIN item_auctions]

\* the auction has a bid and neither a buyout nor a unit price
BidOnly(auction) == auction.buyout = None /\ auction.unit_price = None

\* C11: a bid-only auction contributes to no output: it is held by no list of
\* item_auctions, item_level_auctions or pet_auctions, and the pass of the
\* loop over it leaves unchanged every price series, quantity sum and auction
\* count, from which alone the summaries (market_price, min_buyout, total_qty,
\* num_auctions) are made.
C11_BidOnlyExcluded ==
    /\ [](\A i \in 1..Len(auction_file) :
            BidOnly(auction_file[i]) =>
                /\ ItemPlacements(auction_file[i]) = 0
                /\ Placements(auction_file[i]) = 0)
    /\ [][(pos < Len(auction_file) /\ BidOnly(auction_file[pos + 1]))
            => UNCHANGED <<all_prices, all_qty, all_num_auc, item_auctions,
                           pet_prices, pet_qty, pet_num_auc, pet_auctions,
                           ilvl_prices, ilvl_qty, ilvl_num_auc,
                           item_level_auctions>>]_vars

\* the summary is made of a snapshot in which a bid-only auction follows a
\* usable auction of the same item, whose list holds the usable one alone
C11_Witness ==
    /\ summary # NotRun
    /\ \E i, j \in 1..Len(auction_file) :
          /\ i < j
          /\ Usable(auction_file[i])
          /\ BidOnly(auction_file[j])
          /\ auction_file[i].item.id = auction_file[j].item.id
          /\ item_auctions[auction_file[i].item.id] = <<auction_file[i]>>

\* the price of a usable auction: its buyout if present, otherwise its unit price
PriceOf(auction) ==
    IF auction.buyout # None THEN auction.buyout.val ELSE auction.unit_price.val

\* the least price of the auctions of a list
MinPrice(list) ==
    CHOOSE p \in { PriceOf(list[i]) : i \in 1..Len(list) } :
        \A i \in 1..Len(list) : p <= PriceOf(list[i])

Summarized == summary # NotRun /\ summary # Panic

\* C12: in every summary (item, item and level, pet species) min_buyout is the
\* least price (buyout if present, otherwise unit_price) of the usable
\* auctions of its bucket, whatever the order of the auctions.
C12_MinBuyout ==
    Summarized =>
        /\ \A id \in DOMAIN summary.val.item_summaries :
              summary.val.item_summaries[id].min_buyout
                  = MinPrice(summary.val.item_auctions[id])
        /\ \A species \in DOMAIN summary.val.pet_summaries :
              summary.val.pet_summaries[species].min_buyout
                  = MinPrice(summary.val.pet_auctions[species])
        /\ \A id \in DOMAIN summary.val.item_level_summaries :
              \A level \in DOMAIN summary.val.item_level_summaries[id] :
                  summary.val.item_level_summaries[id][level].min_buyout
                      = MinPrice(summary.val.item_level_auctions[id][level])

RECURSIVE QuantityOf(_)
\* the sum of the quantities of the auctions of a list
QuantityOf(list) ==
    IF list = <<>> THEN 0 ELSE Head(list).quantity + QuantityOf(Tail(list))

\* the usable auctions of the snapshot, in its order, that satisfy Test
UsableWhere(Test(_)) ==
    SelectSeq(auction_file, LAMBDA a : Usable(a) /\ Test(a))

\* the species of the pet bucket of an auction, 0 when it is not a pet
SpeciesOf(auction) ==
    IF AllFourPetFields(auction.item) THEN auction.item.pet_species_id.val
    ELSE IF auction.item.id \in DOMAIN ItemToPet THEN ItemToPet[auction.item.id]
    ELSE 0

\* the summary s counts the auctions of list, which are those of bucket
CountsOf(s, list, bucket) ==
    /\ list = bucket
    /\ s.num_auctions = Len(list)
    /\ s.total_qty = QuantityOf(list)

\* C13: in every summary total_qty is the sum of the quantities of the usable
\* auctions of its bucket and num_auctions is their number, which is the
\* length of the auction list of the bucket.
C13_Counts ==
    Summarized =>
        /\ \A id \in DOMAIN summary.val.item_summaries :
              CountsOf(summary.val.item_summaries[id], summary.val.item_auctions[id],
                       UsableWhere(LAMBDA a : a.item.id = id))
        /\ \A species \in DOMAIN summary.val.pet_summaries :
              CountsOf(summary.val.pet_summaries[species],
                       summary.val.pet_auctions[species],
                       UsableWhere(LAMBDA a : SpeciesOf(a) = species))
        /\ \A id \in DOMAIN summary.val.item_level_summaries :
              \A level \in DOMAIN summary.val.item_level_summaries[id] :
                  CountsOf(summary.val.item_level_summaries[id][level],
                           summary.val.item_level_auctions[id][level],
                           UsableWhere(LAMBDA a :
                               /\ SpeciesOf(a) = 0
                               /\ a.item.id = id
                               /\ resolve_item_level(a.item, id \in EquippableItems)
                                     = level))

\* a summary of two auctions and six units, in a snapshot that holds a
\* bid-only auction of the same item as well
C13_Witness ==
    /\ Summarized
    /\ \E id \in DOMAIN summary.val.item_summaries :
          /\ summary.val.item_summaries[id].num_auctions = 2
          /\ summary.val.item_summaries[id].total_qty = 6
          /\ \E i \in 1..Len(auction_file) :
                BidOnly(auction_file[i]) /\ auction_file[i].item.id = id

\* C14: item_level_auctions and item_level_summaries have entries for
\* equippable items only: no item ID outside the equippable-item set is ever a
\* key of either map.
C14_EquippableOnly ==
    /\ \A id \in DOMAIN item_level_auctions : id \in EquippableItems
    /\ Summarized =>
          \A id \in DOMAIN summary.val.item_level_summaries : id \in EquippableItems

(***************************************************************************)
(* Claims on the estimators (SpecStats)                                    *)
(***************************************************************************)
\* C15: normalized_market_price_with_qty returns None, and does not abort,
\* whenever the total quantity of its series is 0, a non-empty series of
\* quantities 0 included.
C15_ZeroQuantityIsNone ==
    (mp_with_qty # NotRun /\ SumQty(price_qty) = 0) => mp_with_qty = None

MarketPriceDone == mp_call # NotRun

UnitPrice(pq) == pq[CHOOSE i \in 1..Len(pq) : pq[i][2] > 0][1]

\* C17: on a series of exactly one priced unit every estimator returns the
\* price of that unit: market_price([p]) = p, normalized_market_price([p]) = p,
\* and normalized_market_price_with_qty on a series of total quantity 1 returns
\* the price of the pair that carries the unit.
C17_SingleUnit ==
    /\ (MarketPriceDone /\ Len(mp_call.prices) = 1)
          => mp_call.result = Some(mp_call.prices[1])
    /\ (mp_flat # NotRun /\ Len(flat_prices) = 1) => mp_flat = Some(flat_prices[1])
    /\ (mp_with_qty # NotRun /\ SumQty(price_qty) = 1)
          => mp_with_qty = Some(UnitPrice(price_qty))

\* C18: on an empty input market_price, normalized_market_price and
\* normalized_market_price_with_qty each return None and do not abort.
C18_EmptyIsNone ==
    /\ (MarketPriceDone /\ mp_call.prices = <<>>) => mp_call.result = None
    /\ (mp_flat # NotRun /\ flat_prices = <<>>) => mp_flat = None
    /\ (mp_with_qty # NotRun /\ price_qty = <<>>) => mp_with_qty = None

\* the three estimators were called on the empty series
C18_Witness ==
    /\ price_qty = <<>>
    /\ flat_prices = <<>>
    /\ MarketPriceDone /\ mp_call.result = None
    /\ mp_flat = None
    /\ mp_with_qty = None

\* the sum of the m smallest of the prices: those below the m-th smallest
\* price t, and t for the rest of the m
SumOfSmallest(prices, m) ==
    LET AtMost(t) == Cardinality({ i \in 1..Len(prices) : prices[i] <= t })
        Below(t) == { i \in 1..Len(prices) : prices[i] < t }
        t == CHOOSE x \in { prices[i] : i \in 1..Len(prices) } :
                 AtMost(x) >= m /\ Cardinality(Below(x)) < m
        SumBelow[S \in SUBSET Below(t)] ==
            IF S = {} THEN 0
            ELSE LET i == CHOOSE x \in S : TRUE IN prices[i] + SumBelow[S \ {i}]
    IN  SumBelow[Below(t)] + (m - Cardinality(Below(t))) * t

\* r is sum / m rounded to the nearest integer, a half upwards
IsRoundedMean(r, sum, m) == 2 * m * r - m <= 2 * sum /\ 2 * sum < 2 * m * r + m

\* C19: on a list of n >= 2 prices market_price returns the mean, rounded to
\* the nearest integer, of the k + 1 smallest prices, k = percentile_index(15.87,
\* n), the 4 cheapest of the 31 units of the doc example; and the call leaves
\* the caller's list as it was.
C19_MarketPrice ==
    /\ []((MarketPriceDone /\ Len(mp_call.prices) >= 2) =>
            LET n == Len(mp_call.prices)
                k == percentile_index(1587, n).val
            IN  /\ mp_call.result # None
                /\ mp_call.result # Panic
                /\ IsRoundedMean(mp_call.result.val,
                                 SumOfSmallest(mp_call.prices, k + 1), k + 1)
                /\ n = 31 => k + 1 = 4)
    /\ [][mp_call' # mp_call => flat_prices' = flat_prices]_vars

\* market_price was called on the unsorted 31 units of the doc example and
\* returned 4.75g, the mean of 4.00g and three times 5.00g
C19_Witness ==
    /\ MarketPriceDone
    /\ mp_call.prices = Expand(DocSeries)
    /\ flat_prices = Expand(DocSeries)
    /\ mp_call.result = Some(95)

(***************************************************************************)
(* Claims on the standard deviations (SpecStdDev)                          *)
(***************************************************************************)
\* C20: on a series of (amount, quantity) pairs of total quantity >= 2,
\* std_dev_amount_qty returns the standard deviation that std_dev returns on
\* the flat list repeating each amount quantity times, for the population and
\* for the sample; on a total quantity < 2 it returns None.
C20_WeightedStdDev ==
    /\ (sd_amount_qty # NotRun /\ SumQty(price_qty) < 2) => sd_amount_qty.result = None
    /\ (/\ sd_amount_qty # NotRun
        /\ sd_flat # NotRun
        /\ sd_amount_qty.is_population = sd_flat.is_population
        /\ SumQty(price_qty) >= 2)
          => /\ sd_amount_qty.result # None
             /\ sd_amount_qty.result = sd_flat.result

\* the two sample standard deviations of a series of several prices, one pair
\* of them holding several units, are equal and not 0
C20_Witness ==
    /\ sd_amount_qty # NotRun
    /\ sd_flat # NotRun
    /\ ~sd_amount_qty.is_population
    /\ ~sd_flat.is_population
    /\ \E i, j \in 1..Len(price_qty) :
          price_qty[i][1] # price_qty[j][1] /\ price_qty[i][2] > 1 /\ price_qty[j][2] > 0
    /\ sd_amount_qty.result = sd_flat.result
    /\ sd_amount_qty.result # None
    /\ sd_amount_qty.result.val[1] > 0

(***************************************************************************)
(* Claims on the window of normalized_market_price_with_qty (SpecWithQty)  *)
(***************************************************************************)
\* the call went past the two early returns and the percentile indexes: the
\* slice is as the sort left it and the window loop has run on it
WindowLoopRan == mp_with_qty # NotRun /\ SumQty(price_qty) >= 2

\* p0_target and p1_target of the call
P0Target == percentile_index(MINIMUM_PRICES_PERCENTILE, SumQty(price_qty)).val + 1
P1Target == percentile_index(MINIMUM_PRICES_PERCENTILE * 2, SumQty(price_qty)).val + 1

\* index_plus_qty after the loop of the call, or Panic
IndexPlusQty == WindowLoop(price_qty, P0Target, P1Target, 0, 0, <<0, 0>>, None)

\* the quantity of the pairs before index k
QtyBefore(k) == SumQty(SubSeq(price_qty, 1, k))

\* the pair at index k >= 1 has a price >= 1.2 times the price before it
PriceJumpAt(k) == 10 * At(price_qty, k)[1] >= MAX_PRICE_DIFF_FACTOR * At(price_qty, k - 1)[1]

\* C21: in normalized_market_price_with_qty, whenever the quantity already
\* included is at least the 15% target and the next pair has a price >= 1.2
\* times the last included price, that pair is not included: the window stops
\* before it.
C21_JumpRuleFromTarget ==
    (WindowLoopRan /\ IndexPlusQty # Panic)
        => \A k \in 1..(Len(price_qty) - 1) :
              (QtyBefore(k) >= P0Target /\ PriceJumpAt(k)) => IndexPlusQty.val[1] < k

\* new_prices of the call, the window before trimming
WindowWithQty == NewPrices(price_qty, IndexPlusQty.val)

\* C22: in normalized_market_price_with_qty with total quantity Q >= 2 and
\* positive quantities, the quantity W of the window before trimming satisfies
\* percentile_index(15, Q) + 1 <= W <= percentile_index(30, Q) + 1; the window
\* is a prefix of the sorted series in which only the last pair may have a
\* reduced quantity, and that quantity is at least 1.
C22_WindowQuantity ==
    (WindowLoopRan /\ PositiveQtys(price_qty))
        => /\ IndexPlusQty # Panic
           /\ P0Target <= SumQty(WindowWithQty)
           /\ SumQty(WindowWithQty) <= P1Target
           /\ Len(WindowWithQty) \in 1..Len(price_qty)
           /\ \A i \in 1..(Len(WindowWithQty) - 1) : WindowWithQty[i] = price_qty[i]
           /\ LET last == Len(WindowWithQty)
              IN  /\ WindowWithQty[last][1] = price_qty[last][1]
                  /\ 1 <= WindowWithQty[last][2]
                  /\ WindowWithQty[last][2] <= price_qty[last][2]

\* a call on positive quantities whose window ends in a pair counted with a
\* reduced quantity, after a pair counted whole
C22_Witness ==
    /\ WindowLoopRan
    /\ PositiveQtys(price_qty)
    /\ IndexPlusQty # Panic
    /\ Len(WindowWithQty) >= 2
    /\ WindowWithQty[Len(WindowWithQty)][2] < price_qty[Len(WindowWithQty)][2]
    /\ P0Target < P1Target

(***************************************************************************)
(* Claims on the window of normalized_market_price (SpecFlat)              *)
(***************************************************************************)
\* the call went past the two early returns: flat_prices is sorted
FlatWindowRan == mp_flat # NotRun /\ Len(flat_prices) >= 2

P0Index == percentile_index(MINIMUM_PRICES_PERCENTILE, Len(flat_prices)).val
P1Index == percentile_index(MINIMUM_PRICES_PERCENTILE * 2, Len(flat_prices)).val

\* the element at index i is strictly less than 1.2 times its predecessor
BelowJump(i) == 10 * At(flat_prices, i) < MAX_PRICE_DIFF_FACTOR * At(flat_prices, i - 1)

\* C23: in normalized_market_price on n >= 2 prices, sorted, the window before
\* trimming is the prefix [0..t] with p0 <= t <= p1, every element at an index
\* in (p0, t] is strictly less than 1.2 times its predecessor and, if t < p1,
\* the element at t + 1 is >= 1.2 times the element at t.
C23_FlatWindow ==
    FlatWindowRan =>
        LET t == TargetIndex(flat_prices)
        IN  /\ P0Index <= t
            /\ t <= P1Index
            /\ t < Len(flat_prices)
            /\ \A i \in (P0Index + 1)..t : BelowJump(i)
            /\ t < P1Index => ~BelowJump(t + 1)

\* a call whose window grew past p0 and stopped before p1 on a price jump
C23_Witness ==
    /\ FlatWindowRan
    /\ P0Index < TargetIndex(flat_prices)
    /\ TargetIndex(flat_prices) < P1Index

(***************************************************************************)
(* Claims on the standard deviation trim (SpecNormalized)                  *)
(***************************************************************************)
\* calc_prices of the call of normalized_market_price, the window before
\* trimming
FlatWindow == Slice(flat_prices, 0, TargetIndex(flat_prices))

\* the price f lies within [mean - 1.5 sigma, mean + 1.5 sigma] of a window
\* of n units with sum S and sum of squares SS
InRange(f, S, n, SS) ==
    /\ ~BelowRange(f, S, n, SS, STD_DEVS)
    /\ ~AboveRange(f, S, n, SS, STD_DEVS)

\* kept is a slice of window that holds exactly the elements of window whose
\* price (ps, element by element) is in the range
KeptExactly(window, ps, kept, S, n, SS) ==
    \E i0 \in 0..(Len(window) - 1) : \E i1 \in i0..(Len(window) - 1) :
        /\ kept = Slice(window, i0, i1)
        /\ \A i \in 0..(Len(window) - 1) :
              (i0 <= i /\ i <= i1) <=> InRange(At(ps, i), S, n, SS)

\* the trim ran in the call of normalized_market_price
FlatTrimRan == FlatWindowRan /\ Len(FlatWindow) >= 2

\* the trim ran in the call of normalized_market_price_with_qty
QtyTrimRan == WindowLoopRan /\ IndexPlusQty # Panic /\ SumQty(WindowWithQty) >= 2

\* C24: the trim of the sorted window keeps exactly the elements whose price
\* lies within [mean - 1.5 sigma, mean + 1.5 sigma] of the window, sigma the
\* population standard deviation: every kept price is in the range, every
\* dropped price is strictly outside it, and the estimator returns the rounded
\* mean of the kept elements (normalize_from_std_dev and
\* normalize_from_std_dev_price_qty).
C24_TrimKeepsRange ==
    /\ FlatTrimRan =>
          LET filtered_prices == normalize_from_std_dev(FlatWindow, STD_DEVS)
          IN  /\ filtered_prices # Panic
              /\ KeptExactly(FlatWindow, FlatWindow, filtered_prices.val,
                             SumSeq(FlatWindow), Len(FlatWindow), SumSquares(FlatWindow))
              /\ mp_flat = Some(RoundDiv(SumSeq(filtered_prices.val),
                                         Len(filtered_prices.val)))
    /\ QtyTrimRan =>
          LET filtered_prices == normalize_from_std_dev_price_qty(WindowWithQty, STD_DEVS)
          IN  /\ filtered_prices # Panic
              /\ KeptExactly(WindowWithQty, Prices(WindowWithQty), filtered_prices.val,
                             SumAmountQty(WindowWithQty), SumQty(WindowWithQty),
                             SumSquaresQty(WindowWithQty))
              /\ mp_with_qty = Some(RoundDiv(SumAmountQty(filtered_prices.val),
                                             SumQty(filtered_prices.val)))

\* both estimators were called and each trim dropped an element of its window
C24_Witness ==
    /\ FlatTrimRan
    /\ QtyTrimRan
    /\ normalize_from_std_dev(FlatWindow, STD_DEVS) # Panic
    /\ normalize_from_std_dev_price_qty(WindowWithQty, STD_DEVS) # Panic
    /\ Len(normalize_from_std_dev(FlatWindow, STD_DEVS).val) < Len(FlatWindow)
    /\ Len(normalize_from_std_dev_price_qty(WindowWithQty, STD_DEVS).val)
          < Len(WindowWithQty)

\* (i0, i1) of the trim of a window of prices ps
TrimBounds(ps, S, n, SS) == NormalizeLoop(ps, 0, 0, Len(ps) - 1, S, n, SS, STD_DEVS)

\* 0 <= i0 <= i1 <= len - 1
BoundsInOrder(b, len) == 0 <= b.i0 /\ b.i0 <= b.i1 /\ b.i1 <= len - 1

\* C29: for every input with positive quantities the trim inside
\* normalized_market_price and normalized_market_price_with_qty never yields an
\* empty or inverted range, 0 <= i0 <= i1 <= len - 1 (i - 1 is never computed
\* at i = 0), the window loop never indexes past the end of the series, and
\* the estimators never abort and never take the mean of zero elements.
C29_NeverAborts ==
    /\ mp_flat # NotRun =>
          /\ mp_flat # Panic
          /\ FlatTrimRan =>
                /\ BoundsInOrder(TrimBounds(FlatWindow, SumSeq(FlatWindow),
                                            Len(FlatWindow), SumSquares(FlatWindow)),
                                 Len(FlatWindow))
                /\ Len(normalize_from_std_dev(FlatWindow, STD_DEVS).val) > 0
    /\ (mp_with_qty # NotRun /\ PositiveQtys(price_qty)) =>
          /\ mp_with_qty # Panic
          /\ WindowLoopRan => IndexPlusQty # Panic
          /\ QtyTrimRan =>
                /\ BoundsInOrder(TrimBounds(Prices(WindowWithQty),
                                            SumAmountQty(WindowWithQty),
                                            SumQty(WindowWithQty),
                                            SumSquaresQty(WindowWithQty)),
                                 Len(WindowWithQty))
                /\ SumQty(normalize_from_std_dev_price_qty(WindowWithQty, STD_DEVS).val) > 0

\* both estimators were called on positive quantities and ran their trim on
\* a window of several prices
C29_Witness ==
    /\ PositiveQtys(price_qty)
    /\ FlatTrimRan
    /\ QtyTrimRan
    /\ mp_flat # Panic
    /\ mp_with_qty # Panic
    /\ Len(WindowWithQty) >= 2
    /\ FlatWindow[1] # FlatWindow[Len(FlatWindow)]

(***************************************************************************)
(* Claims on the construction of the item bonus table (SpecBonus)          *)
(***************************************************************************)
\* the places in bonus_rows of the rows of bonus ID b that are of a kind:
\* types is {1} for the flat adjustments, {11, 13} for the curves
RowsOf(b, types) ==
    { i \in 1..Len(bonus_rows) :
        /\ ~bonus_rows[i].err
        /\ bonus_rows[i].type_id \in types
        /\ bonus_rows[i].parent_item_bonus_list_id = b }

SetMin(S) == CHOOSE m \in S : \A x \in S : m <= x

\* the table holds, for every bonus ID with rows of a kind, the value of the
\* row that Pick chooses among them, and no other key
TableKeeps(Pick(_)) ==
    LET table == db2_bonuses.val
    IN  /\ DOMAIN table.ilvl_adjustments = { b \in RowBonusIds : RowsOf(b, {1}) # {} }
        /\ DOMAIN table.curve_ids = { b \in RowBonusIds : RowsOf(b, {11, 13}) # {} }
        /\ \A b \in DOMAIN table.ilvl_adjustments :
              table.ilvl_adjustments[b] = bonus_rows[Pick(RowsOf(b, {1}))].value0
        /\ \A b \in DOMAIN table.curve_ids :
              table.curve_ids[b] = bonus_rows[Pick(RowsOf(b, {11, 13}))].value3

\* C26: when several rows of the same kind (flat adjustment, or curve) share a
\* bonus ID, the first such row wins: the value kept for the bonus ID is the
\* one of the earliest row.
C26_FirstRowWins == db2_bonuses # NotRun => TableKeeps(SetMin)

\* C26, amended: when several rows of the same kind share a bonus ID, the last
\* such row wins: the value kept for the bonus ID is the one of the latest
\* row, and each key has one value.
C26_LastRowWins == db2_bonuses # NotRun => TableKeeps(SetMax)

\* a table built from two adjustment rows of one bonus ID with two values
C26_Witness ==
    /\ db2_bonuses # NotRun
    /\ \E b \in RowBonusIds : \E i, j \in RowsOf(b, {1}) :
          i < j /\ bonus_rows[i].value0 # bonus_rows[j].value0

(***************************************************************************)
(* Claims on the maps of one summarization (SpecSummary)                   *)
(***************************************************************************)
\* the usable auctions of the snapshot
UsableAuctions == UsableWhere(LAMBDA a : TRUE)

\* every usable auction of the snapshot has a positive quantity
PositiveSnapshot == \A i \in 1..Len(UsableAuctions) : UsableAuctions[i].quantity > 0

RECURSIVE SumOver(_, _)
\* the sum of f over the set S
SumOver(S, f) ==
    IF S = {} THEN 0
    ELSE LET x == CHOOSE x \in S : TRUE
         IN  f[x] + SumOver(S \ {x}, f)

\* the sums of num_auctions and of total_qty over a map of summaries
NumAuctionsOver(m) == SumOver(DOMAIN m, [k \in DOMAIN m |-> m[k].num_auctions])
TotalQtyOver(m) == SumOver(DOMAIN m, [k \in DOMAIN m |-> m[k].total_qty])

\* the same over the nested map of item ID and item level
NumAuctionsOverLevels(m) == SumOver(DOMAIN m, [id \in DOMAIN m |-> NumAuctionsOver(m[id])])
TotalQtyOverLevels(m) == SumOver(DOMAIN m, [id \in DOMAIN m |-> TotalQtyOver(m[id])])

\* the buckets of the snapshot: items, pet species, item and level
ItemBuckets == { UsableAuctions[i].item.id : i \in 1..Len(UsableAuctions) }
PetBuckets == { SpeciesOf(UsableAuctions[i]) : i \in 1..Len(UsableAuctions) } \ {0}
LevelBuckets ==
    { <<UsableAuctions[i].item.id,
        resolve_item_level(UsableAuctions[i].item,
                           UsableAuctions[i].item.id \in EquippableItems)>> :
        i \in { j \in 1..Len(UsableAuctions) : SpeciesOf(UsableAuctions[j]) = 0 } }

\* the keys (item ID, item level) of a nested map
LevelKeys(m) == UNION { { <<id, level>> : level \in DOMAIN m[id] } : id \in DOMAIN m }

\* C27: conservation across the maps of one summarization, all quantities
\* positive.  Every bucket that received a usable auction has a summary; the
\* sum of num_auctions over the pet summaries plus over the item level
\* summaries equals the sum over the item summaries, which is the number of
\* usable auctions of the snapshot; the same holds for total_qty and the sum
\* of the quantities.
C27_Conservation ==
    (summary # NotRun /\ PositiveSnapshot) =>
        /\ summary # Panic
        /\ DOMAIN summary.val.item_summaries = ItemBuckets
        /\ DOMAIN summary.val.pet_summaries = PetBuckets
        /\ LevelKeys(summary.val.item_level_summaries) = LevelBuckets
        /\ NumAuctionsOver(summary.val.item_summaries) = Len(UsableAuctions)
        /\ NumAuctionsOver(summary.val.pet_summaries)
              + NumAuctionsOverLevels(summary.val.item_level_summaries)
              = NumAuctionsOver(summary.val.item_summaries)
        /\ TotalQtyOver(summary.val.item_summaries) = QuantityOf(UsableAuctions)
        /\ TotalQtyOver(summary.val.pet_summaries)
              + TotalQtyOverLevels(summary.val.item_level_summaries)
              = TotalQtyOver(summary.val.item_summaries)

\* a summarization of positive quantities whose snapshot holds a pet auction
\* and two auctions of one item at two item levels
C27_Witness ==
    /\ Summarized
    /\ PositiveSnapshot
    /\ PetBuckets # {}
    /\ \E k1, k2 \in LevelBuckets : k1[1] = k2[1] /\ k1[2] # k2[2]
    /\ NumAuctionsOver(summary.val.item_summaries) = MaxAuctions

(***************************************************************************)
(* Claims on the range of the estimates (SpecEstimates)                    *)
(***************************************************************************)
\* the greatest price of the auctions of a list
MaxPrice(list) ==
    CHOOSE p \in { PriceOf(list[i]) : i \in 1..Len(list) } :
        \A i \in 1..Len(list) : PriceOf(list[i]) <= p

\* min_buyout <= market_price <= the highest price of the auctions of list
SummaryInRange(s, list) ==
    /\ s.min_buyout <= s.market_price
    /\ s.market_price <= MaxPrice(list)

\* the estimate is a value between the smallest and the largest of the prices
EstimateInRange(estimate, prices) ==
    IsSome(estimate) =>
        /\ \E i \in 1..Len(prices) : prices[i] <= estimate.val
        /\ \E i \in 1..Len(prices) : estimate.val <= prices[i]

\* C28: in every summary produced by from_auction_file, min_buyout <=
\* market_price <= the highest price of the usable auctions of the bucket;
\* each of the three estimators returns a value between the smallest and the
\* largest input price.
C28_EstimateInRange ==
    /\ Summarized =>
          /\ \A id \in DOMAIN summary.val.item_summaries :
                SummaryInRange(summary.val.item_summaries[id],
                               summary.val.item_auctions[id])
          /\ \A species \in DOMAIN summary.val.pet_summaries :
                SummaryInRange(summary.val.pet_summaries[species],
                               summary.val.pet_auctions[species])
          /\ \A id \in DOMAIN summary.val.item_level_summaries :
                \A level \in DOMAIN summary.val.item_level_summaries[id] :
                    SummaryInRange(summary.val.item_level_summaries[id][level],
                                   summary.val.item_level_auctions[id][level])
    /\ mp_call # NotRun => EstimateInRange(mp_call.result, mp_call.prices)
    /\ mp_flat # NotRun => EstimateInRange(mp_flat, flat_prices)
    /\ mp_with_qty # NotRun => EstimateInRange(mp_with_qty, Prices(price_qty))

\* a summary whose market price lies strictly between the least and the
\* greatest price of its bucket
C28_Witness ==
    /\ Summarized
    /\ \E id \in DOMAIN summary.val.item_summaries :
          /\ summary.val.item_summaries[id].min_buyout
                < summary.val.item_summaries[id].market_price
          /\ summary.val.item_summaries[id].market_price
                < MaxPrice(summary.val.item_auctions[id])

(***************************************************************************)
(* Claims on the order of the auctions (SpecSummary)                       *)
(*                                                                         *)
(* The price series of a bucket holds the bucket's auctions in the order   *)
(* of the snapshot, so the snapshots that hold the same auctions in        *)
(* another order give the bucket every order of its series.                *)
(***************************************************************************)
\* every order of a series
OrdersOf(prices) ==
    { [i \in 1..Len(prices) |-> prices[f[i]]] : f \in Permutations(1..Len(prices)) }

\* what insert_item_summary can make of a bucket in any order of its
\* auctions and any outcome of the unstable sort
OutcomesOf(prices, num_auctions, total_qty) ==
    { ItemSummaryOf(p[1], p[2], num_auctions, total_qty) :
        p \in UNION { { <<o, sorted>> : sorted \in SortedByPrice(o) } :
                        o \in OrdersOf(prices) } }

\* the outcome o is the summary s, or no summary when the bucket has none
SameOutcome(o, has, s) ==
    IF has
    THEN /\ IsSome(o)
         /\ o.val.market_price = s.market_price
         /\ o.val.min_buyout = s.min_buyout
         /\ o.val.total_qty = s.total_qty
         /\ o.val.num_auctions = s.num_auctions
    ELSE o = None

\* C30: order independence.  For any two snapshots holding the same auctions
\* in a different order, and for any order in which the unstable sort leaves
\* equal-priced pairs, from_auction_file produces the same buckets with the
\* same market_price, min_buyout, total_qty and num_auctions in every summary.
C30_OrderIndependence ==
    Summarized =>
        /\ \A id \in DOMAIN all_prices :
              \A o \in OutcomesOf(all_prices[id], all_num_auc[id], all_qty[id]) :
                  SameOutcome(o, id \in DOMAIN summary.val.item_summaries,
                              IF id \in DOMAIN summary.val.item_summaries
                              THEN summary.val.item_summaries[id] ELSE None)
        /\ \A species \in DOMAIN pet_prices :
              \A o \in OutcomesOf(pet_prices[species], pet_num_auc[species],
                                   pet_qty[species]) :
                  SameOutcome(o, species \in DOMAIN summary.val.pet_summaries,
                              IF species \in DOMAIN summary.val.pet_summaries
                              THEN summary.val.pet_summaries[species] ELSE None)
        /\ \A key \in DOMAIN ilvl_prices :
              \A o \in OutcomesOf(ilvl_prices[key], ilvl_num_auc[key], ilvl_qty[key]) :
                  SameOutcome(o, key \in LevelKeys(summary.val.item_level_summaries),
                              IF key \in LevelKeys(summary.val.item_level_summaries)
                              THEN summary.val.item_level_summaries[key[1]][key[2]]
                              ELSE None)

=============================================================================
